---- MODULE Spec2Model ----
(***************************************************************************)
(* Model of the KJPX ground noise estimation engine                        *)
(* (src/jpx-dashboard/src/analysis/noise_calculator.py) and of the table   *)
(* of noise profiles that scripts/easa/parse_easa_excel.py writes for it.  *)
(*                                                                         *)
(* Numbers.  Python floats are modelled in fixed point:                    *)
(*   - sound levels and attenuations in milli-dB (DB = 1000 per dB),       *)
(*   - angles in tenths of a degree (DEG = 10 per degree),                 *)
(*   - latitudes and longitudes in 1e-4 degree (LL = 10000 per degree),    *)
(*   - distances and altitudes in whole feet.                              *)
(* Strings that the code takes apart (type codes, which it upper-cases)    *)
(* are sequences of one-character strings; other strings are TLA+ strings. *)
(***************************************************************************)
EXTENDS Integers, Sequences, FiniteSets, TLC

VARIABLES
    file,       \* data/noise/easa/icaoToEasaMap.json: [exists, mappings]
    cache,      \* the module global _noise_profiles_cache (upper code -> profile)
    job,        \* the sequential caller's call: the operation and its arguments
    ret,        \* the outcome of the sequential caller's last completed call
    pc,         \* per thread: the line of get_noise_profile/_load_easa_data it is at
    targ,       \* per thread: the arguments (icao_type, category) of its call
    profiles,   \* per thread: what _load_easa_data returned ("cache" or "empty")
    todo,       \* per thread: the items of mappings.items() still to be stored
    tres,       \* per thread: the profile its call returned
    loads,      \* how often _load_easa_data opened the file (up to MaxLoads)
    rows,       \* the fa_flight_id values stored in the flights table
    total_changes,  \* conn.total_changes of the SQLite connection (up to MaxChanges)
    dbret,      \* the last insert_flight or pull_date call: what it found, returned and logged
    client,     \* the AeroAPIClient: max_retries, retry_base_delay, request_count
    http,       \* the _get call in progress: where it is and what it has seen
    lru,        \* an LRUCache's _cache: its entries, the least recently used first
    clock,      \* time.time(), in seconds since the LRUCache was built
    caller,     \* per thread: its LRUCache call, the line it is at, its locals and outcome
    ncalls      \* how many LRUCache calls have been started (up to MaxLruCalls)

vars == <<file, cache, job, ret, pc, targ, profiles, todo, tres, loads, rows, total_changes,
         dbret, client, http, lru, clock, caller, ncalls>>

-----------------------------------------------------------------------------
(* Fixed-point scales and Python's None *)

DB == 1000
DEG == 10
LL == 10000

\* None where a number is expected (JSON null in a numeric field)
NoneNum == -999999999
\* None where a plain string is expected
NoneStr == "<None>"
\* None passed as icao_type (a sequence no string of characters equals)
NoneCode == <<"<None>">>

Abs(x) == IF x < 0 THEN -x ELSE x
Min(a, b) == IF a <= b THEN a ELSE b
Max(a, b) == IF a >= b THEN a ELSE b

\* Python round(): x / q rounded to the nearest integer, ties to even
\* (x, q integers, q > 0; \div floors)
RoundDiv(x, q) ==
    LET f == x \div q
        r == x - f * q
    IN  IF 2 * r < q THEN f
        ELSE IF 2 * r > q THEN f + 1
        ELSE IF f % 2 = 0 THEN f ELSE f + 1

-----------------------------------------------------------------------------
(* str.upper() *)

LowerChars == <<"a","b","c","d","e","f","g","h","i","j","k","l","m",
                "n","o","p","q","r","s","t","u","v","w","x","y","z">>
UpperChars == <<"A","B","C","D","E","F","G","H","I","J","K","L","M",
                "N","O","P","Q","R","S","T","U","V","W","X","Y","Z">>

UpperChar(c) ==
    IF \E i \in 1..26 : LowerChars[i] = c
    THEN UpperChars[CHOOSE i \in 1..26 : LowerChars[i] = c]
    ELSE c

StrUpper(s) == [i \in 1..Len(s) |-> UpperChar(s[i])]

\* str.startswith(prefix)
StartsWith(s, p) == Len(s) >= Len(p) /\ SubSeq(s, 1, Len(p)) = p

-----------------------------------------------------------------------------
(* Module constants of noise_calculator.py *)

CERTIFICATION_REFERENCE_DISTANCE_FT == 1000

\* 0.5 dB per 1000 ft, in milli-dB per 1000 ft
ATMOSPHERIC_ABSORPTION_COEFFICIENT == 500

LATERAL_ATTENUATION_TABLE ==
    << <<0 * DEG, 0>>,
       <<10 * DEG, 500>>,
       <<20 * DEG, 1200>>,
       <<30 * DEG, 2500>>,
       <<40 * DEG, 4000>>,
       <<50 * DEG, 5500>>,
       <<60 * DEG, 7000>>,
       <<70 * DEG, 8500>>,
       <<80 * DEG, 9500>>,
       <<90 * DEG, 10000>> >>

CATEGORY_AVERAGES ==
    [helicopter |-> [default |-> 84 * DB, light |-> 78 * DB, medium |-> 84 * DB, heavy |-> 90 * DB],
     jet        |-> [default |-> 88 * DB, light |-> 82 * DB, medium |-> 88 * DB, heavy |-> 94 * DB],
     fixed_wing |-> [default |-> 76 * DB, light |-> 72 * DB, medium |-> 76 * DB, heavy |-> 82 * DB],
     unknown    |-> [default |-> 80 * DB]]

\* dict.get(key, default) on a dict modelled as a record
DictGet(d, k, default) == IF k \in DOMAIN d THEN d[k] ELSE default

-----------------------------------------------------------------------------
(* The profile table as parse_easa_excel.py writes it *)

\* _epnl_to_lamax: None stays None, else round(epnl - 13, 1)
EpnlToLamax(epnl) ==
    IF epnl = NoneNum THEN NoneNum ELSE RoundDiv(epnl - 13 * DB, 100) * 100

\* Python's "a or b" on optional numbers
NumOr(a, b) == IF a # NoneNum /\ a # 0 THEN a ELSE b

\* _guess_category_from_icao
GuessCategoryFromIcao(icao) ==
    IF \E p \in { <<"R","2">>, <<"R","4">>, <<"R","6">>, <<"S","7">>, <<"S","9">>,
                  <<"S","6">>, <<"E","C">>, <<"A","S">>, <<"A","1">>, <<"B","0">>,
                  <<"B","4">>, <<"B","5">>, <<"M","D">>, <<"H","1">>, <<"H","5">>,
                  <<"H","2">> } : StartsWith(icao, p)
    THEN "helicopter"
    ELSE IF \E p \in { <<"G","L">>, <<"C","L">>, <<"C","5">>, <<"C","6">>, <<"C","7">>,
                       <<"L","J">>, <<"F","A">>, <<"F","9">>, <<"E","1">>, <<"E","3">>,
                       <<"E","5">> } : StartsWith(icao, p)
    THEN "jet"
    ELSE IF \E p \in { <<"C","1">>, <<"C","2">>, <<"P","A">>, <<"P","2">>, <<"B","E">>,
                       <<"S","R">>, <<"D","A">>, <<"M","2">>, <<"P","C">> } : StartsWith(icao, p)
    THEN "fixed_wing"
    ELSE "unknown"

\* build_icao_mapping, a type code matched to a certification record
MatchedEntry(icao, cert) ==
    [icao_type |-> icao,
     easa_manufacturer |-> cert.manufacturer,
     easa_model |-> cert.model,
     category |-> cert.category,
     lateral_epnl |-> cert.lateral_epnl,
     flyover_epnl |-> cert.flyover_epnl,
     approach_epnl |-> cert.approach_epnl,
     takeoff_db |-> EpnlToLamax(NumOr(cert.takeoff_epnl, cert.flyover_epnl)),
     approach_db |-> EpnlToLamax(cert.approach_epnl),
     data_source |-> "EASA_CERTIFIED",
     confidence |-> "high"]

\* build_icao_mapping, a type code that no certification record matches
FallbackEntry(icao) ==
    LET category == GuessCategoryFromIcao(icao)
    IN  [icao_type |-> icao,
         easa_manufacturer |-> NoneStr,
         easa_model |-> NoneStr,
         category |-> category,
         lateral_epnl |-> NoneNum,
         flyover_epnl |-> NoneNum,
         approach_epnl |-> NoneNum,
         takeoff_db |-> CATEGORY_AVERAGES[category]["default"],
         approach_db |-> CATEGORY_AVERAGES[category]["default"] - 4 * DB,
         data_source |-> "CATEGORY_ESTIMATE",
         confidence |-> "low"]

\* create_fallback_data, one entry of known_profiles
KnownEntry(icao, data) ==
    [icao_type |-> icao,
     easa_manufacturer |-> data.manufacturer,
     easa_model |-> data.model,
     category |-> data.category,
     lateral_epnl |-> DictGet(data, "lateral_epnl", NoneNum),
     flyover_epnl |-> DictGet(data, "flyover_epnl", NoneNum),
     approach_epnl |-> DictGet(data, "approach_epnl", NoneNum),
     takeoff_db |-> data.takeoff_db,
     approach_db |-> data.approach_db,
     data_source |-> "EASA_CERTIFIED",
     confidence |-> data.confidence]

\* Type codes (keys of ICAO_PATTERNS and of known_profiles)
R44 == <<"R","4","4">>
S76 == <<"S","7","6">>
C172 == <<"C","1","7","2">>

\* known_profiles["R44"], known_profiles["S76"], known_profiles["C172"]
KnownR44 ==
    [manufacturer |-> "Robinson", model |-> "R44 II", category |-> "helicopter",
     flyover_epnl |-> 88500, takeoff_db |-> 82 * DB, approach_db |-> 80 * DB,
     confidence |-> "high"]
KnownS76 ==
    [manufacturer |-> "Sikorsky", model |-> "S-76C++", category |-> "helicopter",
     flyover_epnl |-> 95000, lateral_epnl |-> 91200, approach_epnl |-> 97000,
     takeoff_db |-> 88 * DB, approach_db |-> 85 * DB, confidence |-> "high"]
KnownC172 ==
    [manufacturer |-> "Cessna", model |-> "172S Skyhawk", category |-> "fixed_wing",
     flyover_epnl |-> 76000, takeoff_db |-> 75 * DB, approach_db |-> 72 * DB,
     confidence |-> "high"]

\* Records as _extract_record returns them from a certification sheet: a row
\* with all three levels, and a row in which only the lateral level is filled
CertS76 ==
    [manufacturer |-> "Sikorsky", model |-> "S-76C", category |-> "helicopter",
     lateral_epnl |-> 91200, flyover_epnl |-> 95000, approach_epnl |-> 97000,
     takeoff_epnl |-> NoneNum]
CertR44 ==
    [manufacturer |-> "Robinson", model |-> "R44", category |-> "helicopter",
     lateral_epnl |-> 81900, flyover_epnl |-> NoneNum, approach_epnl |-> NoneNum,
     takeoff_epnl |-> NoneNum]

\* The file is absent, or holds the "mappings" object in the order it was written
MissingFile == [exists |-> FALSE, mappings |-> <<>>]
FallbackFile ==
    [exists |-> TRUE,
     mappings |-> << <<R44, KnownEntry(R44, KnownR44)>>,
                     <<S76, KnownEntry(S76, KnownS76)>>,
                     <<C172, KnownEntry(C172, KnownC172)>> >>]
\* A file without entries: "mappings" empty or absent, or JSON that does not parse
EmptyFile == [exists |-> TRUE, mappings |-> <<>>]
ParsedFile ==
    [exists |-> TRUE,
     mappings |-> << <<R44, MatchedEntry(R44, CertR44)>>,
                     <<S76, MatchedEntry(S76, CertS76)>>,
                     <<C172, FallbackEntry(C172)>> >>]

Files == {MissingFile, EmptyFile, FallbackFile, ParsedFile}

-----------------------------------------------------------------------------
(* Loading the table: _load_easa_data *)

\* Mutant: the confidence read under a key the file does not have
LoadedProfile_DefaultConfidence(icao, profile_data) ==
    [icao_type |-> StrUpper(icao),
     manufacturer |-> DictGet(profile_data, "easa_manufacturer", NoneStr),
     model |-> DictGet(profile_data, "easa_model", NoneStr),
     category |-> DictGet(profile_data, "category", "unknown"),
     takeoff_db |-> DictGet(profile_data, "takeoff_db", 80 * DB),
     approach_db |-> DictGet(profile_data, "approach_db", 76 * DB),
     lateral_epnl |-> DictGet(profile_data, "lateral_epnl", NoneNum),
     flyover_epnl |-> DictGet(profile_data, "flyover_epnl", NoneNum),
     approach_epnl |-> DictGet(profile_data, "approach_epnl", NoneNum),
     data_source |-> DictGet(profile_data, "data_source", "CATEGORY_ESTIMATE"),
     confidence |-> DictGet(profile_data, "confidence_level", "medium")]

\* The NoiseProfile stored for one item of mappings.items()
LoadedProfile(icao, profile_data) ==
    [icao_type |-> StrUpper(icao),
     manufacturer |-> DictGet(profile_data, "easa_manufacturer", NoneStr),
     model |-> DictGet(profile_data, "easa_model", NoneStr),
     category |-> DictGet(profile_data, "category", "unknown"),
     takeoff_db |-> DictGet(profile_data, "takeoff_db", 80 * DB),
     approach_db |-> DictGet(profile_data, "approach_db", 76 * DB),
     lateral_epnl |-> DictGet(profile_data, "lateral_epnl", NoneNum),
     flyover_epnl |-> DictGet(profile_data, "flyover_epnl", NoneNum),
     approach_epnl |-> DictGet(profile_data, "approach_epnl", NoneNum),
     data_source |-> DictGet(profile_data, "data_source", "CATEGORY_ESTIMATE"),
     confidence |-> DictGet(profile_data, "confidence", "medium")]

\* _noise_profiles_cache[icao.upper()] = NoiseProfile(...)
StoreItem(c, item) ==
    LET key == StrUpper(item[1])
    IN  [k \in (DOMAIN c) \cup {key} |->
            IF k = key THEN LoadedProfile(item[1], item[2]) ELSE c[k]]

RECURSIVE StoreAll(_, _)
StoreAll(c, items) ==
    IF items = <<>> THEN c ELSE StoreAll(StoreItem(c, Head(items)), Tail(items))

EmptyDict == [k \in {} |-> 0]

\* Mutant: a loaded cache is handed out and emptied
LoadEasaData_HandsOver(c, f) ==
    IF DOMAIN c # {} THEN [cache |-> EmptyDict, returned |-> c]
    ELSE IF ~f.exists THEN [cache |-> c, returned |-> EmptyDict]
    ELSE [cache |-> StoreAll(c, f.mappings), returned |-> StoreAll(c, f.mappings)]

\* One uninterrupted call of _load_easa_data: the cache afterwards, and the
\* dict that is returned
LoadEasaData(c, f) ==
    IF DOMAIN c # {} THEN [cache |-> c, returned |-> c]
    ELSE IF ~f.exists THEN [cache |-> c, returned |-> EmptyDict]
    ELSE [cache |-> StoreAll(c, f.mappings), returned |-> StoreAll(c, f.mappings)]

\* Of n calls of _load_easa_data made one after the other, starting with the
\* cache c, the number that open and parse the file (lines 138-139): none when
\* the cache has entries (line 128) or the file is absent (line 134), all of
\* them when the file has no entries (the cache stays empty), else the first
FileReads(c, f, n) ==
    IF DOMAIN c # {} \/ ~f.exists THEN 0
    ELSE IF f.mappings # <<>> THEN Min(n, 1)
    ELSE n

-----------------------------------------------------------------------------
(* get_noise_profile *)

\* Mutant: the approach level 3 dB below the takeoff level
FallbackProfile_OffsetThree(icao_upper, category, cat_data) ==
    [icao_type |-> IF icao_upper # <<>> THEN icao_upper ELSE <<"U","N","K","N">>,
     manufacturer |-> NoneStr,
     model |-> NoneStr,
     category |-> category,
     takeoff_db |-> cat_data["default"],
     approach_db |-> cat_data["default"] - 3 * DB,
     lateral_epnl |-> NoneNum,
     flyover_epnl |-> NoneNum,
     approach_epnl |-> NoneNum,
     data_source |-> "CATEGORY_ESTIMATE",
     confidence |-> "low"]

\* Lines 175-186: the category average
FallbackProfile(icao_upper, category, cat_data) ==
    [icao_type |-> IF icao_upper # <<>> THEN icao_upper ELSE <<"U","N","K","N">>,
     manufacturer |-> NoneStr,
     model |-> NoneStr,
     category |-> category,
     takeoff_db |-> cat_data["default"],
     approach_db |-> cat_data["default"] - 4 * DB,
     lateral_epnl |-> NoneNum,
     flyover_epnl |-> NoneNum,
     approach_epnl |-> NoneNum,
     data_source |-> "CATEGORY_ESTIMATE",
     confidence |-> "low"]

\* Lines 172-186
LookupUpper(table, icao_upper, category) ==
    IF icao_upper \in DOMAIN table THEN table[icao_upper]
    ELSE FallbackProfile(icao_upper, category,
                         DictGet(CATEGORY_AVERAGES, category, CATEGORY_AVERAGES["unknown"]))

\* Mutant: the lookup without .upper()
LookupProfile_NoUpper(table, icao_type, category) ==
    LookupUpper(table, IF icao_type = NoneCode THEN <<>> ELSE icao_type, category)

\* Lines 170-186 of get_noise_profile, with the dict _load_easa_data returned
LookupProfile(table, icao_type, category) ==
    LookupUpper(table, StrUpper(IF icao_type = NoneCode THEN <<>> ELSE icao_type), category)

\* One uninterrupted call of get_noise_profile: the profile returned
GetNoiseProfile(c, f, icao_type, category) ==
    LookupProfile(LoadEasaData(c, f).returned, icao_type, category)

-----------------------------------------------------------------------------
(* Fixed-point versions of the math library functions the code calls *)

\* floor(sqrt(n)), n >= 0
RECURSIVE ISqrtBetween(_, _, _)
ISqrtBetween(n, lo, hi) ==
    IF lo >= hi THEN lo
    ELSE LET mid == (lo + hi + 1) \div 2
         IN  IF mid * mid <= n THEN ISqrtBetween(n, mid, hi)
             ELSE ISqrtBetween(n, lo, mid - 1)

ISqrt(n) == ISqrtBetween(n, 0, 46340)

\* math.cos and math.sin of an angle given in 1e-4 degree, result scaled by
\* 10000; the Taylor series in the angle x (radians scaled by 10000)
RadE4(a) == ((a \div 10) * 17453) \div 100000

CosSeries(x2, x4) ==
    10000 - x2 \div 2 + x4 \div 24 - ((x4 * x2) \div 10000) \div 720
    + ((x4 * x4) \div 10000) \div 40320

CosOfSquare(x2) == CosSeries(x2, (x2 * x2) \div 10000)

CosE4(a) == CosOfSquare((RadE4(a) * RadE4(a)) \div 10000)

SinSeries(x, x2, x3) ==
    x - x3 \div 6 + ((x3 * x2) \div 10000) \div 120
    - ((((x3 * x2) \div 10000) * x2) \div 10000) \div 5040

SinOfSquare(x, x2) == SinSeries(x, x2, (x2 * x) \div 10000)

SinE4(a) == SinOfSquare(RadE4(a), (RadE4(a) * RadE4(a)) \div 10000)

\* math.atan of t in [0, 1] (t scaled by 10000), in tenths of a degree:
\* 45 t + t (1 - t) (14.02 + 3.80 t) degrees
AtanUnit(t) ==
    (450 * t) \div 10000
    + ((((t * (10000 - t)) \div 10000) * (1402 + (380 * t) \div 10000)) \div 100000)

\* math.degrees(math.atan2(y, x)) in tenths of a degree, in (-180, 180] degrees;
\* atan2(0, 0) is 0 and atan2(0, x) is 180 for x < 0, as in Python for y = +0.0
FirstQuadrant(ay, ax) ==
    IF ax = 0 /\ ay = 0 THEN 0
    ELSE IF ay <= ax THEN AtanUnit((ay * 10000) \div ax)
    ELSE 90 * DEG - AtanUnit((ax * 10000) \div ay)

UpperHalf(x, first) == IF x >= 0 THEN first ELSE 180 * DEG - first

Atan2Deg(y, x) ==
    IF y >= 0 THEN UpperHalf(x, FirstQuadrant(Abs(y), Abs(x)))
    ELSE -UpperHalf(x, FirstQuadrant(Abs(y), Abs(x)))

\* floor(log2(d)) for d >= 1
RECURSIVE FloorLog2(_)
FloorLog2(d) == IF d < 2 THEN 0 ELSE 1 + FloorLog2(d \div 2)

RECURSIVE Pow2(_)
Pow2(n) == IF n = 0 THEN 1 ELSE 2 * Pow2(n - 1)

\* The k fraction bits of log2(m / 16384) for m in [16384, 32768), by squaring
RECURSIVE Log2Frac(_, _)
Log2FracStep(sq, k) ==
    IF sq >= 32768 THEN Pow2(k - 1) + Log2Frac(sq \div 2, k - 1)
    ELSE Log2Frac(sq, k - 1)

Log2Frac(m, k) == IF k = 0 THEN 0 ELSE Log2FracStep(RoundDiv(m * m, 16384), k)

\* log2(d) scaled by 16384, for 1 <= d < 131072
Log2WithExponent(d, e) == e * 16384 + Log2Frac((d * 16384) \div Pow2(e), 14)

Log2Q14(d) == Log2WithExponent(d, FloorLog2(d))

\* 20 * math.log10(num / den) in milli-dB (20 log10(2) = 6.0206 dB per octave)
DbOfOctaves(diff) == RoundDiv(diff * 6020 + (diff * 3) \div 5, 16384)

\* Mutant: the ratio inverted
TwentyLog10_Inverted(num, den) == DbOfOctaves(Log2Q14(den) - Log2Q14(num))

TwentyLog10(num, den) == DbOfOctaves(Log2Q14(num) - Log2Q14(den))

-----------------------------------------------------------------------------
(* Geometry functions *)

\* EARTH_RADIUS_FT * _to_radians(d) for d in 1e-4 degree: feet of arc
\* (20902230.97 * pi / 180 = 364812.75 ft per degree)
ArcFt(d) ==
    IF d >= 0 THEN (d * 364813) \div 10000 ELSE -(((-d) * 364813) \div 10000)

Hypot(a, b) == ISqrt(a * a + b * b)

\* Mutant: cos(lat1) squared in place of cos(lat1) * cos(lat2)
calculate_horizontal_distance_ft_FirstLatitude(lat1, lon1, lat2, lon2) ==
    Hypot(ArcFt(lat2 - lat1),
          (Abs(ArcFt(lon2 - lon1)) * ISqrt(CosE4(lat1) * CosE4(lat1))) \div 10000)

\* calculate_horizontal_distance_ft.  With a as in the code and R the earth
\* radius, (2R)^2 a = dlat^2 + cos(lat1) cos(lat2) dlon^2 in feet, and
\* R c = 2R asin(sqrt(a)) = 2R sqrt(a) to well below a foot over an arc of a
\* few miles, which is where the model's positions lie.
calculate_horizontal_distance_ft(lat1, lon1, lat2, lon2) ==
    Hypot(ArcFt(lat2 - lat1),
          (Abs(ArcFt(lon2 - lon1)) * ISqrt(CosE4(lat1) * CosE4(lat2))) \div 10000)

\* calculate_slant_distance_ft
calculate_slant_distance_ft(altitude_ft, horizontal_ft) == Hypot(altitude_ft, horizontal_ft)

\* calculate_bearing, in tenths of a degree in [0, 360).  y and x are the
\* code's y and x times R, in feet; x is written with
\* cos(a) sin(b) - sin(a) cos(b) cos(d) = sin(b - a) + sin(a) cos(b) (1 - cos(d)),
\* and R (1 - cos(d)) = (R d)^2 / 2R.
BearingY(d_lon, lat2) == (d_lon * CosE4(lat2)) \div 10000

BearingX(d_lat, d_lon, lat1, lat2) ==
    d_lat + (((((d_lon * d_lon) \div 41804462) * SinE4(lat1)) \div 10000) * CosE4(lat2)) \div 10000

calculate_bearing(lat1, lon1, lat2, lon2) ==
    (Atan2Deg(BearingY(ArcFt(lon2 - lon1), lat2),
              BearingX(ArcFt(lat2 - lat1), ArcFt(lon2 - lon1), lat1, lat2))
     + 360 * DEG) % (360 * DEG)

\* Mutant: the difference clamped at 90 without the wrap at 180
FoldAngle_NoWrap(angle_diff) == Min(90 * DEG, angle_diff)

\* calculate_lateral_angle, in tenths of a degree
FoldAngle(angle_diff) ==
    Min(90 * DEG, IF angle_diff > 180 * DEG THEN 360 * DEG - angle_diff ELSE angle_diff)

calculate_lateral_angle(observer_lat, observer_lon, aircraft_lat, aircraft_lon, heading) ==
    FoldAngle(Abs(calculate_bearing(aircraft_lat, aircraft_lon, observer_lat, observer_lon)
                  - heading))

\* get_lateral_attenuation, angle in tenths of a degree, result in milli-dB.
\* Segment(angle) is the index the loop breaks at (0 when it never breaks).
Segment(angle) ==
    LET T == LATERAL_ATTENUATION_TABLE
        hits == {i \in 1..(Len(T) - 1) : T[i][1] <= angle /\ angle <= T[i + 1][1]}
    IN  IF hits = {} THEN 0 ELSE CHOOSE i \in hits : \A j \in hits : i <= j

\* Mutant: the ratio taken by integer division
Interpolate_IntegerRatio(angle, lower, upper) ==
    lower[2] + ((angle - lower[1])
                \div (IF upper[1] - lower[1] # 0 THEN upper[1] - lower[1] ELSE 1))
               * (upper[2] - lower[2])

Interpolate(angle, lower, upper) ==
    lower[2] + RoundDiv((angle - lower[1]) * (upper[2] - lower[2]),
                        IF upper[1] - lower[1] # 0 THEN upper[1] - lower[1] ELSE 1)

InterpolateAt(angle, i) ==
    IF i = 0
    THEN Interpolate(angle, LATERAL_ATTENUATION_TABLE[1],
                     LATERAL_ATTENUATION_TABLE[Len(LATERAL_ATTENUATION_TABLE)])
    ELSE Interpolate(angle, LATERAL_ATTENUATION_TABLE[i], LATERAL_ATTENUATION_TABLE[i + 1])

\* Mutant: the clamp without abs()
ClampAngle_NoAbs(angle_degrees) == Min(90 * DEG, Max(0, angle_degrees))

ClampAngle(angle_degrees) == Min(90 * DEG, Max(0, Abs(angle_degrees)))

get_lateral_attenuation(angle_degrees) ==
    InterpolateAt(ClampAngle(angle_degrees), Segment(ClampAngle(angle_degrees)))

-----
(* Outcomes of a call: a value returned, or an exception raised *)

Returned(v) == [raised |-> "", value |-> v]
Raised(e) == [raised |-> e, value |-> NoneStr]

\* float("inf")
Inf == 2147483647

\* No warning (None)
NoWarning == <<>>

-----------------------------------------------------------------------------
(* Core noise calculations.  A function of the code is written as a chain  *)
(* of definitions, each taking the values computed so far as parameters.   *)

\* Mutant: the level rounded but not floored at 0
FinalLevel_NoFloor(ground_db) == RoundDiv(ground_db, 100) * 100

\* Mutant: the level cut to 0.1 dB instead of rounded
FinalLevel_Truncated(ground_db) == Max(0, (ground_db \div 100) * 100)

\* max(0, round(ground_db * 10) / 10)
FinalLevel(ground_db) == Max(0, RoundDiv(ground_db, 100) * 100)

\* round(x * 10) / 10
RoundTenth(x) == RoundDiv(x, 100) * 100

\* Lines 317-330.  A source_db of None makes the subtraction raise TypeError.
GroundEstimate(source_db, horizontal_distance_ft, slant_distance_ft, geometric_attenuation, atmospheric_attenuation, lateral_attenuation) ==
    IF source_db = NoneNum THEN Raised("TypeError")
    ELSE Returned(
        [db |-> FinalLevel(source_db - geometric_attenuation - atmospheric_attenuation
                           - lateral_attenuation),
         source |-> "CALCULATED",
         confidence |-> "high",
         warning |-> NoWarning,
         slant_distance_ft |-> slant_distance_ft,
         horizontal_distance_ft |-> horizontal_distance_ft,
         geometric_attenuation |-> RoundTenth(geometric_attenuation),
         atmospheric_attenuation |-> RoundTenth(atmospheric_attenuation),
         lateral_attenuation |-> RoundTenth(lateral_attenuation)])

\* Lines 299-307: the attenuation terms of the effective slant distance
GroundNoiseAtDistance(source_db, horizontal_distance_ft, slant_distance_ft, effective_slant_distance, lateral_attenuation) ==
    GroundEstimate(source_db, horizontal_distance_ft, slant_distance_ft,
                   TwentyLog10(effective_slant_distance, CERTIFICATION_REFERENCE_DISTANCE_FT),
                   (effective_slant_distance * ATMOSPHERIC_ABSORPTION_COEFFICIENT) \div 1000,
                   lateral_attenuation)

\* Lines 296-297: max(slant_distance_ft, 100)
GroundNoiseAtSlant(source_db, horizontal_distance_ft, slant_distance_ft, lateral_attenuation) ==
    GroundNoiseAtDistance(source_db, horizontal_distance_ft, slant_distance_ft,
                          Max(slant_distance_ft, 100), lateral_attenuation)

\* Lines 293-294
GroundNoiseAtHorizontal(source_db, altitude_ft, horizontal_distance_ft, lateral_attenuation) ==
    GroundNoiseAtSlant(source_db, horizontal_distance_ft,
                       calculate_slant_distance_ft(altitude_ft, horizontal_distance_ft),
                       lateral_attenuation)

\* Mutant: "if heading:" in place of "if heading is not None:"
LateralTerm_Truthy(observer_lat, observer_lon, aircraft_lat, aircraft_lon, heading) ==
    IF heading # NoneNum /\ heading # 0
    THEN get_lateral_attenuation(
             calculate_lateral_angle(observer_lat, observer_lon,
                                     aircraft_lat, aircraft_lon, heading))
    ELSE 0

\* Lines 309-315; heading is NoneNum when it is None
LateralTerm(observer_lat, observer_lon, aircraft_lat, aircraft_lon, heading) ==
    IF heading # NoneNum
    THEN get_lateral_attenuation(
             calculate_lateral_angle(observer_lat, observer_lon,
                                     aircraft_lat, aircraft_lon, heading))
    ELSE 0

calculate_ground_noise(source_db, altitude_ft, observer_lat, observer_lon, aircraft_lat, aircraft_lon, heading) ==
    GroundNoiseAtHorizontal(
        source_db, altitude_ft,
        calculate_horizontal_distance_ft(observer_lat, observer_lon,
                                         aircraft_lat, aircraft_lon),
        LateralTerm(observer_lat, observer_lon, aircraft_lat, aircraft_lon, heading))

\* Mutant: source and confidence left as calculate_ground_noise set them
AnnotateEstimate_KeepsCalculated(profile, icao_type, estimate) ==
    IF estimate.raised # "" THEN estimate
    ELSE Returned(
        [estimate.value EXCEPT
            !.warning = IF profile.data_source # "EASA_CERTIFIED"
                        THEN <<"No EASA data for ", icao_type, ". Using ",
                               profile.category, " average.">>
                        ELSE NoWarning])

\* Lines 357-364: source, confidence and warning from the profile
AnnotateEstimate(profile, icao_type, estimate) ==
    IF estimate.raised # "" THEN estimate
    ELSE Returned(
        [estimate.value EXCEPT
            !.source = profile.data_source,
            !.confidence = profile.confidence,
            !.warning = IF profile.data_source # "EASA_CERTIFIED"
                        THEN <<"No EASA data for ", icao_type, ". Using ",
                               profile.category, " average.">>
                        ELSE NoWarning])

\* Mutant: the takeoff level only for direction "departure"
NoiseAtPositionWith_NotDeparture(profile, icao_type, position, observer_lat, observer_lon, direction) ==
    AnnotateEstimate(
        profile, icao_type,
        calculate_ground_noise(
            IF direction # "departure" THEN profile.approach_db ELSE profile.takeoff_db,
            position.altitude_ft, observer_lat, observer_lon,
            position.latitude, position.longitude, position.heading))

\* Lines 345-364, with the profile that line 344 resolved
NoiseAtPositionWith(profile, icao_type, position, observer_lat, observer_lon, direction) ==
    AnnotateEstimate(
        profile, icao_type,
        calculate_ground_noise(
            IF direction = "arrival" THEN profile.approach_db ELSE profile.takeoff_db,
            position.altitude_ft, observer_lat, observer_lon,
            position.latitude, position.longitude, position.heading))

\* calculate_noise_at_position, called with the cache as c and the file as f
calculate_noise_at_position(c, f, icao_type, position, observer_lat, observer_lon, direction, category) ==
    NoiseAtPositionWith(GetNoiseProfile(c, f, icao_type, category), icao_type, position,
                        observer_lat, observer_lon, direction)

-----------------------------------------------------------------------------
(* calculate_flight_noise_impact *)

OBSERVER_LOCATIONS ==
    << [id |-> "wainscott-main", name |-> "Wainscott Main Street", lat |-> 409445, lon |-> -722337],
       [id |-> "sagaponack-south", name |-> "Sagaponack South", lat |-> 409234, lon |-> -722567],
       [id |-> "runway-approach", name |-> "Runway 28 Approach", lat |-> 409589, lon |-> -722312],
       [id |-> "runway-departure", name |-> "Runway 10 Departure", lat |-> 409591, lon |-> -722720],
       [id |-> "northwest-residential", name |-> "Northwest Residential", lat |-> 409678, lon |-> -722612],
       [id |-> "georgica-pond", name |-> "Georgica Pond Area", lat |-> 409412, lon |-> -722234],
       [id |-> "daniels-hole-road", name |-> "Daniels Hole Road", lat |-> 409512, lon |-> -722445],
       [id |-> "beach-lane", name |-> "Beach Lane", lat |-> 409312, lon |-> -722389] >>

\* observers=None
NoneObservers == << [none |-> TRUE] >>

position_interval_seconds == 5

RECURSIVE SumSeq(_)
SumSeq(q) == IF q = <<>> THEN 0 ELSE Head(q) + SumSeq(Tail(q))

\* The running maximum "if x > m: m = x" over q, started at m
RECURSIVE RunMax(_, _)
RunMax(q, m) == IF q = <<>> THEN m ELSE RunMax(Tail(q), IF Head(q) > m THEN Head(q) ELSE m)

\* The running minimum "if x < m: m = x" over q, started at m
RECURSIVE RunMin(_, _)
RunMin(q, m) == IF q = <<>> THEN m ELSE RunMin(Tail(q), IF Head(q) < m THEN Head(q) ELSE m)

\* Mutant: the threshold exclusive
RECURSIVE CountAtLeast_Exclusive(_, _)
CountAtLeast_Exclusive(q, level) ==
    IF q = <<>> THEN 0
    ELSE (IF Head(q) > level THEN 1 ELSE 0) + CountAtLeast_Exclusive(Tail(q), level)

\* The number of elements of q that are >= level
RECURSIVE CountAtLeast(_, _)
CountAtLeast(q, level) ==
    IF q = <<>> THEN 0
    ELSE (IF Head(q) >= level THEN 1 ELSE 0) + CountAtLeast(Tail(q), level)

\* round(x) raises OverflowError for float("inf")
PyRoundRaises(x) == x = Inf

\* Of a sequence of outcomes: whether one is an exception, and the first that is
AnyRaised(outs) == \E i \in 1..Len(outs) : outs[i].raised # ""
FirstRaised(outs) ==
    outs[CHOOSE i \in 1..Len(outs) :
            outs[i].raised # "" /\ \A j \in 1..(i - 1) : outs[j].raised = ""]

\* The estimates of every track position at one observer (lines 390-398, 423-431)
TrackEstimates(profile, icao_type, track, obs, direction) ==
    [i \in 1..Len(track) |->
        NoiseAtPositionWith(profile, icao_type, track[i], obs.lat, obs.lon, direction)]

\* Mutant: the two thresholds exchanged
ImpactRecord_ThresholdsExchanged(obs, dbs, closest_ft) ==
    IF PyRoundRaises(closest_ft) THEN Raised("OverflowError")
    ELSE Returned(
        [observer_id |-> obs.id,
         observer_name |-> obs.name,
         max_db |-> RoundTenth(RunMax(dbs, 0)),
         closest_approach_ft |-> closest_ft,
         time_above_65db |-> CountAtLeast(dbs, 75 * DB) * position_interval_seconds,
         time_above_75db |-> CountAtLeast(dbs, 65 * DB) * position_interval_seconds])

\* Lines 445-452
ImpactRecord(obs, dbs, closest_ft) ==
    IF PyRoundRaises(closest_ft) THEN Raised("OverflowError")
    ELSE Returned(
        [observer_id |-> obs.id,
         observer_name |-> obs.name,
         max_db |-> RoundTenth(RunMax(dbs, 0)),
         closest_approach_ft |-> closest_ft,
         time_above_65db |-> CountAtLeast(dbs, 65 * DB) * position_interval_seconds,
         time_above_75db |-> CountAtLeast(dbs, 75 * DB) * position_interval_seconds])

\* Mutant: the distance of the first sample taken as the closest approach
ImpactOfEstimates_FirstApproach(obs, ests) ==
    IF AnyRaised(ests) THEN Raised(FirstRaised(ests).raised)
    ELSE ImpactRecord(obs,
                      [i \in 1..Len(ests) |-> ests[i].value.db],
                      IF ests = <<>> THEN Inf ELSE ests[1].value.slant_distance_ft)

\* One pass of the per-observer loop (lines 417-452) over the estimates ests:
\* the impact record, or the exception that ends the call
ImpactOfEstimates(obs, ests) ==
    IF AnyRaised(ests) THEN Raised(FirstRaised(ests).raised)
    ELSE ImpactRecord(obs,
                      [i \in 1..Len(ests) |-> ests[i].value.db],
                      RunMin([i \in 1..Len(ests) |-> ests[i].value.slant_distance_ft], Inf))

ObserverImpact(profile, icao_type, track, obs, direction) ==
    ImpactOfEstimates(obs, TrackEstimates(profile, icao_type, track, obs, direction))

\* Mutant: the average left as the sum of the levels
FlightResult_SumForAverage(fa_flight_id, icao_type, track, direction, profile, noise_values, impacts) ==
    Returned(
        [fa_flight_id |-> fa_flight_id,
         aircraft_type |-> icao_type,
         direction |-> direction,
         noise_profile |-> [manufacturer |-> profile.manufacturer,
                            model |-> profile.model,
                            takeoff_db |-> profile.takeoff_db,
                            approach_db |-> profile.approach_db,
                            data_source |-> profile.data_source,
                            confidence |-> profile.confidence],
         max_ground_db |-> IF noise_values # <<>>
                           THEN RoundTenth(RunMax(noise_values, Head(noise_values)))
                           ELSE 0,
         avg_ground_db |-> IF noise_values # <<>>
                           THEN RoundTenth(SumSeq(noise_values))
                           ELSE 0,
         exposure_seconds |-> Len(track) * position_interval_seconds,
         track_count |-> Len(track),
         observer_impacts |-> [k \in 1..Len(impacts) |-> impacts[k].value]])

\* Lines 409-413 and 454-471
FlightResult(fa_flight_id, icao_type, track, direction, profile, noise_values, impacts) ==
    Returned(
        [fa_flight_id |-> fa_flight_id,
         aircraft_type |-> icao_type,
         direction |-> direction,
         noise_profile |-> [manufacturer |-> profile.manufacturer,
                            model |-> profile.model,
                            takeoff_db |-> profile.takeoff_db,
                            approach_db |-> profile.approach_db,
                            data_source |-> profile.data_source,
                            confidence |-> profile.confidence],
         max_ground_db |-> IF noise_values # <<>>
                           THEN RoundTenth(RunMax(noise_values, Head(noise_values)))
                           ELSE 0,
         avg_ground_db |-> IF noise_values # <<>>
                           THEN RoundDiv(SumSeq(noise_values), 100 * Len(noise_values)) * 100
                           ELSE 0,
         exposure_seconds |-> Len(track) * position_interval_seconds,
         track_count |-> Len(track),
         observer_impacts |-> [k \in 1..Len(impacts) |-> impacts[k].value]])

\* Lines 386-471 once the estimates at the primary observer (primary) and the
\* outcome of every round of the per-observer loop (impacts) are known
FlightOutcome(fa_flight_id, icao_type, track, direction, profile, primary, impacts) ==
    IF AnyRaised(primary) THEN Raised(FirstRaised(primary).raised)
    ELSE IF AnyRaised(impacts) THEN Raised(FirstRaised(impacts).raised)
    ELSE FlightResult(fa_flight_id, icao_type, track, direction, profile,
                      [i \in 1..Len(primary) |-> primary[i].value.db], impacts)

\* The get_noise_profile calls of one calculate_flight_noise_impact call: line
\* 383, and one per calculate_noise_at_position call (lines 391 and 424)
ProfileCalls(track, observers) ==
    1 + (IF Len(observers) = 0 THEN 0 ELSE Len(track) * (1 + Len(observers)))

\* Mutant: the summary taken at the last observer of the list
FlightImpactWith_LastPrimary(fa_flight_id, icao_type, track, direction, profile, observers) ==
    IF Len(observers) = 0 THEN Raised("IndexError")
    ELSE FlightOutcome(fa_flight_id, icao_type, track, direction, profile,
                       TrackEstimates(profile, icao_type, track, observers[Len(observers)],
                                      direction),
                       [k \in 1..Len(observers) |->
                           ObserverImpact(profile, icao_type, track, observers[k], direction)])

\* Mutant: the estimates of the first observer reused for every observer
FlightImpactWith_SharedEstimates(fa_flight_id, icao_type, track, direction, profile, observers) ==
    IF Len(observers) = 0 THEN Raised("IndexError")
    ELSE FlightOutcome(fa_flight_id, icao_type, track, direction, profile,
                       TrackEstimates(profile, icao_type, track, observers[1], direction),
                       [k \in 1..Len(observers) |->
                           ImpactOfEstimates(observers[k],
                               TrackEstimates(profile, icao_type, track, observers[1],
                                              direction))])

\* Lines 383-471 with the observer list and the profile in hand; observers[0] of
\* an empty list raises IndexError
FlightImpactWith(fa_flight_id, icao_type, track, direction, profile, observers) ==
    IF Len(observers) = 0 THEN Raised("IndexError")
    ELSE FlightOutcome(fa_flight_id, icao_type, track, direction, profile,
                       TrackEstimates(profile, icao_type, track, observers[1], direction),
                       [k \in 1..Len(observers) |->
                           ObserverImpact(profile, icao_type, track, observers[k], direction)])

\* calculate_flight_noise_impact, called with the cache as c and the file as f.
\* Every get_noise_profile call of one sequential call returns the same profile.
calculate_flight_noise_impact(c, f, fa_flight_id, icao_type, track, direction, category, observers) ==
    FlightImpactWith(fa_flight_id, icao_type, track, direction,
                     GetNoiseProfile(c, f, icao_type, category),
                     IF observers = NoneObservers THEN OBSERVER_LOCATIONS ELSE observers)

-----------------------------------------------------------------------------
(* classify_aircraft: src/analysis/classify.py *)

\* The type sets of lines 25-122; a code the source lists twice is written once
HELICOPTER_TYPES ==
    {<<"R","2","2">>, <<"R","4","4">>, <<"R","6","6">>, <<"E","C","2","0">>,
     <<"E","C","3","0">>, <<"E","C","3","5">>, <<"E","C","4","5">>, <<"E","C","5","5">>,
     <<"E","C","7","5">>, <<"A","S","5","0">>, <<"A","S","5","5">>, <<"A","S","6","5">>,
     <<"A","S","3","2">>, <<"A","S","3","3">>, <<"A","S","3","5">>, <<"H","1","2","5">>,
     <<"H","1","3","0">>, <<"H","1","3","5">>, <<"H","1","4","5">>, <<"H","1","5","5">>,
     <<"H","1","6","0">>, <<"H","1","7","5">>, <<"H","2","1","5">>, <<"H","2","2","5">>,
     <<"E","C","2","5">>, <<"B","0","6">>, <<"B","0","6","T">>, <<"B","2","0","4">>,
     <<"B","2","0","5">>, <<"B","2","0","6">>, <<"B","2","0","9">>, <<"B","2","1","2">>,
     <<"B","2","1","4">>, <<"B","2","2","2">>, <<"B","2","3","0">>, <<"B","4","0","7">>,
     <<"B","4","1","2">>, <<"B","4","2","7">>, <<"B","4","2","9">>, <<"B","4","3","0">>,
     <<"B","5","0","5">>, <<"B","5","2","5">>, <<"S","7","6">>, <<"S","6","1">>,
     <<"S","7","0">>, <<"S","9","2">>, <<"S","5","8">>, <<"S","6","4">>, <<"S","7","6","B">>,
     <<"S","7","6","C">>, <<"S","7","6","D">>, <<"H","6","0">>, <<"S","3","0","0">>,
     <<"A","1","0","9">>, <<"A","1","1","9">>, <<"A","1","3","9">>, <<"A","1","4","9">>,
     <<"A","1","6","9">>, <<"A","1","8","9">>, <<"A","W","0","9">>, <<"A","W","3","9">>,
     <<"A","W","6","9">>, <<"A","W","8","9">>, <<"M","D","5","2">>, <<"M","D","6","0">>,
     <<"E","X","P","L">>, <<"N","O","T","R">>, <<"H","3","6","9">>, <<"H","5","0","0">>,
     <<"E","N","2","8">>, <<"E","N","4","8">>, <<"S","2","6","9">>, <<"S","3","3","3">>,
     <<"H","2","6","9">>, <<"H","E","L","I">>}

JET_TYPES ==
    {<<"G","L","F","2">>, <<"G","L","F","3">>, <<"G","L","F","4">>, <<"G","L","F","5">>,
     <<"G","L","F","6">>, <<"G","L","E","X">>, <<"G","1","5","0">>, <<"G","2","0","0">>,
     <<"G","2","8","0">>, <<"G","3","5","0">>, <<"G","4","5","0">>, <<"G","5","0","0">>,
     <<"G","5","5","0">>, <<"G","6","0","0">>, <<"G","6","5","0">>, <<"G","7","0","0">>,
     <<"G","8","0","0">>, <<"C","L","3","0">>, <<"C","L","3","5">>, <<"C","L","6","0">>,
     <<"B","D","7","0">>, <<"G","L","5","T">>, <<"G","L","6","T">>, <<"G","L","7","T">>,
     <<"L","J","2","3">>, <<"L","J","2","4">>, <<"L","J","2","5">>, <<"L","J","2","8">>,
     <<"L","J","3","1">>, <<"L","J","3","5">>, <<"L","J","3","6">>, <<"L","J","4","0">>,
     <<"L","J","4","5">>, <<"L","J","5","5">>, <<"L","J","6","0">>, <<"L","J","7","0">>,
     <<"L","J","7","5">>, <<"C","5","0","0">>, <<"C","5","0","1">>, <<"C","5","1","0">>,
     <<"C","5","2","5">>, <<"C","5","2","6">>, <<"C","5","5","0">>, <<"C","5","5","1">>,
     <<"C","5","6","0">>, <<"C","5","6","X">>, <<"C","6","5","0">>, <<"C","6","8","0">>,
     <<"C","7","0","0">>, <<"C","7","5","0">>, <<"F","A","1","0">>, <<"F","A","2","0">>,
     <<"F","A","5","0">>, <<"F","A","7","X">>, <<"F","A","8","X">>, <<"F","9","0","0">>,
     <<"F","2","T","H">>, <<"F","A","6","X">>, <<"E","1","3","5">>, <<"E","1","4","5">>,
     <<"E","1","7","0">>, <<"E","1","9","0">>, <<"E","1","9","5">>, <<"E","5","0","P">>,
     <<"E","5","5","P">>, <<"E","3","5","L">>, <<"E","5","4","5">>, <<"E","5","5","0">>,
     <<"P","C","2","4">>, <<"H","D","J","T">>, <<"E","A","5","0">>, <<"S","F","5","0">>,
     <<"P","R","M","1">>, <<"H","2","5","A">>, <<"H","2","5","B">>, <<"H","2","5","C">>,
     <<"A","J","E","T">>}

FIXED_WING_TYPES ==
    {<<"C","1","5","0">>, <<"C","1","5","2">>, <<"C","1","7","0">>, <<"C","1","7","2">>,
     <<"C","1","7","7">>, <<"C","1","8","0">>, <<"C","1","8","2">>, <<"C","1","8","5">>,
     <<"C","2","0","6">>, <<"C","2","0","7">>, <<"C","2","1","0">>, <<"C","3","1","0">>,
     <<"C","3","2","0">>, <<"C","3","3","7">>, <<"C","3","4","0">>, <<"C","4","0","2">>,
     <<"C","4","1","4">>, <<"C","2","0","8">>, <<"C","4","4","1">>, <<"P","2","8","A">>,
     <<"P","2","8","B">>, <<"P","2","8","R">>, <<"P","2","8","T">>, <<"P","A","1","8">>,
     <<"P","A","2","2">>, <<"P","A","2","3">>, <<"P","A","2","4">>, <<"P","A","2","7">>,
     <<"P","A","2","8">>, <<"P","A","3","0">>, <<"P","A","3","1">>, <<"P","A","3","2">>,
     <<"P","A","3","4">>, <<"P","A","3","8">>, <<"P","A","4","4">>, <<"P","A","4","6">>,
     <<"P","A","6","0">>, <<"P","C","1","2">>, <<"B","E","3","3">>, <<"B","E","3","5">>,
     <<"B","E","3","6">>, <<"B","E","5","5">>, <<"B","E","5","8">>, <<"B","E","7","6">>,
     <<"B","E","9","L">>, <<"B","3","5","0">>, <<"B","E","2","0">>, <<"B","E","3","0">>,
     <<"B","2","0","0">>, <<"B","3","0","0">>, <<"M","2","0","J">>, <<"M","2","0","K">>,
     <<"M","2","0","P">>, <<"M","2","0","R">>, <<"M","2","0","T">>, <<"M","2","0","U">>,
     <<"S","R","2","0">>, <<"S","R","2","2">>, <<"D","A","2","0">>, <<"D","A","4","0">>,
     <<"D","A","4","2">>, <<"D","A","5","0">>, <<"D","A","6","2">>, <<"T","B","M","7">>,
     <<"T","B","M","8">>, <<"T","B","M","9">>, <<"T","B","M">>, <<"D","H","C","2">>,
     <<"D","H","C","3">>, <<"D","H","C","6">>}

\* The characters str.strip() removes, of those the inputs are written with
WhitespaceChars == {" ", "\t", "\n", "\r"}

\* str.lstrip() and str.rstrip()
RECURSIVE StrLStrip(_)
StrLStrip(s) == IF s # <<>> /\ Head(s) \in WhitespaceChars THEN StrLStrip(Tail(s)) ELSE s

RECURSIVE StrRStrip(_)
StrRStrip(s) ==
    IF s # <<>> /\ s[Len(s)] \in WhitespaceChars THEN StrRStrip(SubSeq(s, 1, Len(s) - 1)) ELSE s

\* str.strip()
StrStrip(s) == StrRStrip(StrLStrip(s))

\* Mutant: the code upper-cased but not stripped
classify_aircraft_Unstripped(icao_type) ==
    IF icao_type = NoneCode \/ icao_type = <<>> THEN "unknown"
    ELSE IF StrUpper(icao_type) \in HELICOPTER_TYPES THEN "helicopter"
    ELSE IF StrUpper(icao_type) \in JET_TYPES THEN "jet"
    ELSE IF StrUpper(icao_type) \in FIXED_WING_TYPES THEN "fixed_wing"
    ELSE "unknown"

\* classify_aircraft (lines 125-146); "not icao_type" holds for None and ""
classify_aircraft(icao_type) ==
    IF icao_type = NoneCode \/ icao_type = <<>> THEN "unknown"
    ELSE IF StrUpper(StrStrip(icao_type)) \in HELICOPTER_TYPES THEN "helicopter"
    ELSE IF StrUpper(StrStrip(icao_type)) \in JET_TYPES THEN "jet"
    ELSE IF StrUpper(StrStrip(icao_type)) \in FIXED_WING_TYPES THEN "fixed_wing"
    ELSE "unknown"

-----
(* Bounds and the inputs the calls are made with *)

\* Angles passed to get_lateral_attenuation: -MaxAngleDeg .. MaxAngleDeg degrees
MaxAngleDeg == 120
\* Track lengths 0 .. MaxTrack
MaxTrack == 2
\* Threads calling get_noise_profile at once
NThreads == 2
\* The count of file reads stops at MaxLoads
MaxLoads == 2

ZZZZ == <<"Z","Z","Z","Z">>
s76 == <<"s","7","6">>

TypeCodes == {S76, s76, <<"S","7","6","x">>, R44, <<"r","4","4">>, C172, ZZZZ, <<>>, NoneCode}
CategoryHints == {"helicopter", "jet", "fixed_wing", "unknown", "bogus", NoneStr}

Angles == (-(MaxAngleDeg * DEG))..(MaxAngleDeg * DEG)

SourceLevels == {10 * DB, 76 * DB, 88 * DB, 97 * DB}
Altitudes == {0, 60, 100, 101, 800, 1000, 1001, 5000, 20000}
Headings == {NoneNum, 0, 90 * DEG, 280 * DEG}
\* Headings passed to calculate_lateral_angle: 0 to 360 degrees in steps of 15
LateralHeadings == {15 * k * DEG : k \in 0..24}
\* Wainscott Main Street and Runway 28 Approach
ObserverPoints == {<<409445, -722337>>, <<409589, -722312>>}
\* Over Wainscott, one step east of it, the airport, and west of the airport
AircraftPoints == {<<409445, -722337>>, <<409445, -722336>>, <<409590, -722516>>,
                   <<409600, -722900>>}

\* The samples of one flight, 5 seconds apart
TrackSamples ==
    << [timestamp |-> "12:00:00", latitude |-> 409445, longitude |-> -722337,
        altitude_ft |-> 800, groundspeed_kts |-> 120, heading |-> 280 * DEG],
       [timestamp |-> "12:00:05", latitude |-> 409589, longitude |-> -722312,
        altitude_ft |-> 2706, groundspeed_kts |-> NoneNum, heading |-> NoneNum],
       [timestamp |-> "12:00:10", latitude |-> 409600, longitude |-> -722900,
        altitude_ft |-> 5000, groundspeed_kts |-> 140, heading |-> 90 * DEG] >>

TrackPositions == {TrackSamples[i] : i \in DOMAIN TrackSamples}

\* Tracks of up to MaxTrack of the samples, in the order of their timestamps
Tracks ==
    { [i \in DOMAIN ix |-> TrackSamples[ix[i]]] :
        ix \in { jx \in UNION { [1..n -> DOMAIN TrackSamples] : n \in 0..MaxTrack } :
                   \A i \in 1..(Len(jx) - 1) : jx[i] < jx[i + 1] } }

ObserverLists ==
    { NoneObservers,
      <<>>,
      <<OBSERVER_LOCATIONS[1], OBSERVER_LOCATIONS[3]>>,
      <<OBSERVER_LOCATIONS[3], OBSERVER_LOCATIONS[1]>> }

FlightCodes == {S76, C172}
Directions == {"arrival", "departure"}
\* Direction values passed to calculate_noise_at_position
PositionDirections == Directions \cup {"Arrival", "overflight"}
FlightHints == {"helicopter", "unknown"}
\* The flights whose tracks are evaluated: type code and category
Flights == {[icao_type |-> S76, category |-> "helicopter"],
            [icao_type |-> C172, category |-> "unknown"]}

\* str.lower(), by which the inputs of classify_aircraft are written
LowerChar(c) ==
    IF \E i \in 1..26 : UpperChars[i] = c
    THEN LowerChars[CHOOSE i \in 1..26 : UpperChars[i] = c]
    ELSE c
StrLower(s) == [i \in 1..Len(s) |-> LowerChar(s[i])]

\* Codes of the three type sets, and codes of none: unlisted, a listed code
\* with a character more or less, a space inside a listed code, whitespace only
ClassifyCodes ==
    {R44, S76, <<"E","C","3","5">>, <<"B","4","0","7">>, <<"G","L","F","5">>,
     <<"C","5","6","0">>, <<"F","A","7","X">>, C172, <<"S","R","2","2">>,
     <<"P","A","2","8">>, <<"T","B","M">>, ZZZZ, <<"R","4">>, <<"R","4","4","X">>,
     <<"R"," ","4","4">>, <<" ">>}
\* The ways an input spells a code: as listed, in lower case, with the first
\* letter alone in lower case, and with whitespace around it
Spellings(code) ==
    {code, StrLower(code), <<LowerChar(Head(code))>> \o Tail(code),
     <<" ">> \o code \o <<" ">>, <<" ", " ">> \o StrLower(code),
     <<"\t">> \o StrLower(code) \o <<"\n">>, code \o <<"\r", "\n">>}
\* The inputs of classify_aircraft: None, "", and the spellings of the codes
ClassifyInputs == {NoneCode, <<>>} \cup UNION {Spellings(code) : code \in ClassifyCodes}

Threads == 1..NThreads

\* Threads sharing one LRUCache
NLruThreads == 2
\* LRUCache calls started in one run
MaxLruCalls == 3
\* The clock runs from 0 to MaxClock seconds
MaxClock == 1
LruThreads == 1..NLruThreads
\* The LRUCache the threads share: LRUCache(maxsize=1, ttl_seconds=1)
LruMaxsize == 1
LruTtl == 1
\* params=None and params={}
NoneParams == <<"<None>">>
EmptyParams == <<>>
\* The (endpoint, params) pairs the threads call the cache with
LruRequests ==
    {[endpoint |-> "/aircraft/N1", params |-> NoneParams],
     [endpoint |-> "/aircraft/N1", params |-> EmptyParams],
     [endpoint |-> "/airports/KJPX", params |-> NoneParams]}
\* The values stored for an endpoint: its response, in one of two versions
LruVersions == {1, 2}
\* None as a cached value or as the value get returns
NoneValue == [none |-> TRUE]
\* A thread that is in no LRUCache call and has made none
IdleCaller ==
    [pc |-> "idle", op |-> "none", key |-> <<>>, value |-> NoneValue,
     held |-> NoneValue, out |-> [done |-> FALSE]]
ConcCodes == {R44, s76, C172, ZZZZ}
ConcHints == {"helicopter", "unknown"}

-----------------------------------------------------------------------------
(* The state machine *)

NoJob == [op |-> "none"]
NoCall == [done |-> FALSE]
NoProfile == [none |-> TRUE]

\* The calculate_flight_noise_impact calls a sequential caller makes
FlightJobs ==
    {[op |-> "calculate_flight_noise_impact", icao_type |-> f.icao_type,
      track |-> t, direction |-> d, category |-> f.category, observers |-> o] :
        f \in Flights, t \in Tracks, d \in Directions, o \in ObserverLists}

\* The calls a sequential caller makes
Jobs ==
    [op : {"get_noise_profile"}, icao_type : TypeCodes, category : CategoryHints]
    \cup [op : {"get_lateral_attenuation"}, angle_degrees : Angles]
    \cup [op : {"calculate_ground_noise"}, source_db : SourceLevels,
          altitude_ft : Altitudes, observer : ObserverPoints,
          aircraft : AircraftPoints, heading : Headings]
    \cup [op : {"calculate_lateral_angle"}, observer : ObserverPoints,
          aircraft : AircraftPoints, heading : LateralHeadings]
    \cup [op : {"calculate_noise_at_position"}, icao_type : FlightCodes,
          position : TrackPositions, observer : ObserverPoints,
          direction : PositionDirections, category : FlightHints]
    \cup [op : {"classify_aircraft"}, icao_type : ClassifyInputs]
    \cup FlightJobs

\* The state when the module has been imported: the cache is empty
InitModule ==
    /\ file \in Files
    /\ cache = EmptyDict
    /\ ret = NoCall
    /\ pc = [t \in Threads |-> "idle"]
    /\ targ = [t \in Threads |-> [icao_type |-> <<>>, category |-> "unknown"]]
    /\ profiles = [t \in Threads |-> "none"]
    /\ todo = [t \in Threads |-> <<>>]
    /\ tres = [t \in Threads |-> NoProfile]
    /\ loads = 0

\* A fresh connection to an empty flights table; no insert_flight call yet
InitDb ==
    /\ rows = {}
    /\ total_changes = 0
    /\ dbret = NoCall

\* No AeroAPIClient has been constructed
InitNoClient ==
    /\ client = [none |-> TRUE]
    /\ http = [done |-> FALSE]

\* An LRUCache as __init__ leaves it (aeroapi.py lines 56-59), no call on it yet
InitLru ==
    /\ lru = <<>>
    /\ clock = 0
    /\ caller = [t \in LruThreads |-> IdleCaller]
    /\ ncalls = 0

Init == InitModule /\ job \in Jobs /\ InitDb /\ InitNoClient /\ InitLru

threadVars == <<pc, targ, profiles, todo, tres>>
dbVars == <<rows, total_changes, dbret>>
apiVars == <<client, http>>
lruVars == <<lru, clock, caller, ncalls>>

(* Sequential calls: each call runs to completion before the next starts; the *)
(* caller makes its call, and may make it again                              *)

CallGetNoiseProfile ==
    /\ job.op = "get_noise_profile"
    /\ cache' = LoadEasaData(cache, file).cache
    /\ ret' = [done |-> TRUE,
               out |-> Returned(GetNoiseProfile(cache, file, job.icao_type, job.category))]
    /\ loads' = Min(MaxLoads, loads + FileReads(cache, file, 1))
    /\ UNCHANGED <<file, job, threadVars, dbVars, apiVars, lruVars>>

CallGetLateralAttenuation ==
    /\ job.op = "get_lateral_attenuation"
    /\ ret' = [done |-> TRUE,
               out |-> Returned(get_lateral_attenuation(job.angle_degrees))]
    /\ UNCHANGED <<file, cache, job, loads, threadVars, dbVars, apiVars, lruVars>>

CallClassifyAircraft ==
    /\ job.op = "classify_aircraft"
    /\ ret' = [done |-> TRUE, out |-> Returned(classify_aircraft(job.icao_type))]
    /\ UNCHANGED <<file, cache, job, loads, threadVars, dbVars, apiVars, lruVars>>

CallCalculateLateralAngle ==
    /\ job.op = "calculate_lateral_angle"
    /\ ret' = [done |-> TRUE,
               out |-> Returned(calculate_lateral_angle(job.observer[1], job.observer[2],
                                                        job.aircraft[1], job.aircraft[2],
                                                        job.heading))]
    /\ UNCHANGED <<file, cache, job, loads, threadVars, dbVars, apiVars, lruVars>>

CallCalculateGroundNoise ==
    /\ job.op = "calculate_ground_noise"
    /\ ret' = [done |-> TRUE,
               out |-> calculate_ground_noise(job.source_db, job.altitude_ft,
                                              job.observer[1], job.observer[2],
                                              job.aircraft[1], job.aircraft[2],
                                              job.heading)]
    /\ UNCHANGED <<file, cache, job, loads, threadVars, dbVars, apiVars, lruVars>>

CallCalculateNoiseAtPosition ==
    /\ job.op = "calculate_noise_at_position"
    /\ cache' = LoadEasaData(cache, file).cache
    /\ ret' = [done |-> TRUE,
               out |-> calculate_noise_at_position(cache, file, job.icao_type, job.position,
                                                   job.observer[1], job.observer[2],
                                                   job.direction, job.category)]
    /\ loads' = Min(MaxLoads, loads + FileReads(cache, file, 1))
    /\ UNCHANGED <<file, job, threadVars, dbVars, apiVars, lruVars>>

CallCalculateFlightNoiseImpact ==
    /\ job.op = "calculate_flight_noise_impact"
    /\ cache' = LoadEasaData(cache, file).cache
    /\ ret' = [done |-> TRUE,
               out |-> calculate_flight_noise_impact(cache, file, "f1", job.icao_type,
                                                     job.track, job.direction,
                                                     job.category, job.observers)]
    /\ loads' = Min(MaxLoads,
                    loads + FileReads(cache, file,
                                      ProfileCalls(job.track,
                                                   IF job.observers = NoneObservers
                                                   THEN OBSERVER_LOCATIONS
                                                   ELSE job.observers)))
    /\ UNCHANGED <<file, job, threadVars, dbVars, apiVars, lruVars>>

Next ==
    \/ CallGetNoiseProfile
    \/ CallGetLateralAttenuation
    \/ CallCalculateLateralAngle
    \/ CallClassifyAircraft
    \/ CallCalculateGroundNoise
    \/ CallCalculateNoiseAtPosition
    \/ CallCalculateFlightNoiseImpact

Spec == Init /\ [][Next]_vars

\* The sequential caller that evaluates flight tracks and makes no other call
InitFlight == InitModule /\ job \in FlightJobs /\ InitDb /\ InitNoClient /\ InitLru

NextFlight == CallCalculateFlightNoiseImpact

SpecFlight == InitFlight /\ [][NextFlight]_vars

(* Concurrent calls of get_noise_profile: one step per line that reads or     *)
(* writes the shared cache                                                   *)

\* A thread enters get_noise_profile (line 169)
ThreadCall(t) ==
    \E icao_type \in ConcCodes, category \in ConcHints :
        /\ pc[t] \in {"idle", "done"}
        /\ targ' = [targ EXCEPT ![t] = [icao_type |-> icao_type, category |-> category]]
        /\ pc' = [pc EXCEPT ![t] = "L128"]
        /\ tres' = [tres EXCEPT ![t] = NoProfile]
        /\ UNCHANGED <<file, cache, job, ret, profiles, todo, loads, dbVars, apiVars, lruVars>>

\* if _noise_profiles_cache: return _noise_profiles_cache (lines 128-129)
ThreadCheckCache(t) ==
    /\ pc[t] = "L128"
    /\ IF DOMAIN cache # {}
       THEN /\ profiles' = [profiles EXCEPT ![t] = "cache"]
            /\ pc' = [pc EXCEPT ![t] = "L170"]
       ELSE /\ pc' = [pc EXCEPT ![t] = "L134"]
            /\ UNCHANGED profiles
    /\ UNCHANGED <<file, cache, job, ret, targ, todo, tres, loads, dbVars, apiVars, lruVars>>

\* The file is absent: return {}; else read it (lines 134-142)
ThreadOpenFile(t) ==
    /\ pc[t] = "L134"
    /\ IF ~file.exists
       THEN /\ profiles' = [profiles EXCEPT ![t] = "empty"]
            /\ pc' = [pc EXCEPT ![t] = "L170"]
            /\ UNCHANGED <<todo, loads>>
       ELSE /\ todo' = [todo EXCEPT ![t] = file.mappings]
            /\ pc' = [pc EXCEPT ![t] = "L143"]
            /\ loads' = Min(MaxLoads, loads + 1)
            /\ UNCHANGED profiles
    /\ UNCHANGED <<file, cache, job, ret, targ, tres, dbVars, apiVars, lruVars>>

\* One round of the loop that fills the cache, or its end and the return of
\* the cache (lines 143-160)
ThreadStoreItem(t) ==
    /\ pc[t] = "L143"
    /\ IF todo[t] # <<>>
       THEN /\ cache' = StoreItem(cache, Head(todo[t]))
            /\ todo' = [todo EXCEPT ![t] = Tail(todo[t])]
            /\ UNCHANGED <<pc, profiles>>
       ELSE /\ profiles' = [profiles EXCEPT ![t] = "cache"]
            /\ pc' = [pc EXCEPT ![t] = "L170"]
            /\ UNCHANGED <<cache, todo>>
    /\ UNCHANGED <<file, job, ret, targ, tres, loads, dbVars, apiVars, lruVars>>

\* The lookup in the dict that was returned, and the fallback (lines 170-186)
ThreadLookup(t) ==
    /\ pc[t] = "L170"
    /\ tres' = [tres EXCEPT ![t] =
                   LookupProfile(IF profiles[t] = "cache" THEN cache ELSE EmptyDict,
                                 targ[t].icao_type, targ[t].category)]
    /\ pc' = [pc EXCEPT ![t] = "done"]
    /\ UNCHANGED <<file, cache, job, ret, targ, profiles, todo, loads, dbVars, apiVars, lruVars>>

NextConc ==
    \E t \in Threads :
        \/ ThreadCall(t)
        \/ ThreadCheckCache(t)
        \/ ThreadOpenFile(t)
        \/ ThreadStoreItem(t)
        \/ ThreadLookup(t)

InitConc == InitModule /\ job = NoJob /\ InitDb /\ InitNoClient /\ InitLru

SpecConc == InitConc /\ [][NextConc]_vars

-----------------------------------------------------------------------------
(* The flights table: src/db/database.py and scripts/daily_pull.py *)

\* fa_flight_id values of the flights AeroAPI returns
FlightIds == {"A", "B", "C"}
\* A flight record without fa_flight_id (process_flight gives None)
NoFlightId == ""
\* The flights one pull fetches: at most MaxFetched, ids repeated or missing
MaxFetched == 2
\* conn.total_changes is counted up to MaxChanges
MaxChanges == 3

\* conn.total_changes after INSERT OR IGNORE INTO flights (lines 42-60): one
\* more when a row was added.  fa_flight_id is UNIQUE: a row whose id is stored
\* already is dropped without an error.
ChangesAfterInsert(stored, changes, id) ==
    IF id \in stored THEN changes ELSE Min(MaxChanges, changes + 1)

\* insert_flight(conn, flight), lines 36-63: the rows and total_changes it
\* leaves, and the value it returns (line 61), conn.total_changes > 0, the
\* changes counted since the connection was opened.  The IntegrityError branch
\* of lines 62-63 is not taken: OR IGNORE drops the row instead of raising.
insert_flight(stored, changes, id) ==
    [rows |-> stored \cup {id},
     total_changes |-> ChangesAfterInsert(stored, changes, id),
     returned |-> ChangesAfterInsert(stored, changes, id) > 0]

\* The counters pull_date starts with (lines 125-127), on the connection as
\* log_ingestion left it (line 123: one INSERT into ingestion_log)
PullStart(stored, changes) ==
    [rows |-> stored, total_changes |-> Min(MaxChanges, changes + 1),
     total |-> 0, inserted |-> 0, skipped |-> 0]

\* One round of the loop of lines 145-156 for a flight with a fa_flight_id
PullInsert(acc, r) ==
    [rows |-> r.rows, total_changes |-> r.total_changes, total |-> acc.total + 1,
     inserted |-> acc.inserted + (IF r.returned THEN 1 ELSE 0),
     skipped |-> acc.skipped + (IF r.returned THEN 0 ELSE 1)]

\* One round of the loop of lines 145-156
PullOne(acc, id) ==
    IF id # NoFlightId
    THEN PullInsert(acc, insert_flight(acc.rows, acc.total_changes, id))
    ELSE [acc EXCEPT !.total = @ + 1, !.skipped = @ + 1]

RECURSIVE PullLoop(_, _)
\* The loops of lines 141-156 over the arrivals and then the departures
PullLoop(acc, flights) ==
    IF flights = <<>> THEN acc ELSE PullLoop(PullOne(acc, Head(flights)), Tail(flights))

\* conn.total_changes when pull_date returns: update_daily_summary (line 161)
\* replaces the day's summary row when the day has flights, and log_ingestion
\* (lines 164-172) updates the log row
ChangesAfterPull(acc) ==
    Min(MaxChanges, acc.total_changes + (IF acc.rows # {} THEN 1 ELSE 0) + 1)

\* What the client hands pull_date when the fetch succeeds: the day's arrivals
\* followed by its departures
Fetches == UNION {[1..n -> FlightIds \cup {NoFlightId}] : n \in 0..MaxFetched}

\* insert_flight(conn, flight) for a flight with a fa_flight_id
CallInsertFlight ==
    \E id \in FlightIds :
        /\ rows' = insert_flight(rows, total_changes, id).rows
        /\ total_changes' = insert_flight(rows, total_changes, id).total_changes
        /\ dbret' = [done |-> TRUE, op |-> "insert_flight", flight |-> id, before |-> rows,
                     returned |-> insert_flight(rows, total_changes, id).returned]
        /\ UNCHANGED <<file, cache, job, ret, loads, threadVars, apiVars, lruVars>>

\* pull_date(client, conn, date_str), lines 111-189, the fetch succeeding
CallPullDate ==
    \E flights \in Fetches :
        /\ rows' = PullLoop(PullStart(rows, total_changes), flights).rows
        /\ total_changes' = ChangesAfterPull(PullLoop(PullStart(rows, total_changes), flights))
        /\ dbret' = [done |-> TRUE, op |-> "pull_date", before |-> rows, status |-> "success",
                     total |-> PullLoop(PullStart(rows, total_changes), flights).total,
                     inserted |-> PullLoop(PullStart(rows, total_changes), flights).inserted,
                     skipped |-> PullLoop(PullStart(rows, total_changes), flights).skipped]
        /\ UNCHANGED <<file, cache, job, ret, loads, threadVars, apiVars, lruVars>>

\* pull_date when the client raises AeroAPIError (lines 176-182): the log row
\* is marked, nothing was counted
CallPullDateApiError ==
    /\ total_changes' = Min(MaxChanges, PullStart(rows, total_changes).total_changes + 1)
    /\ dbret' = [done |-> TRUE, op |-> "pull_date", before |-> rows, status |-> "error",
                 total |-> 0, inserted |-> 0, skipped |-> 0]
    /\ UNCHANGED <<file, cache, job, ret, loads, rows, threadVars, apiVars, lruVars>>

NextDb == CallInsertFlight \/ CallPullDate \/ CallPullDateApiError

InitSpecDb == InitModule /\ file = MissingFile /\ job = NoJob /\ InitDb /\ InitNoClient /\ InitLru

SpecDb == InitSpecDb /\ [][NextDb]_vars

-----------------------------------------------------------------------------
(* AeroAPIClient._get: src/api/aeroapi.py *)

\* Clients are built with max_retries from 0 to MaxRetries
MaxRetries == 2
\* A client is called while its budget of MaxRequests HTTP requests lasts
MaxRequests == 4
\* retry_base_delay, in seconds (the default of line 134)
RetryBaseDelay == 1
\* float('inf'), and any number of seconds time.sleep cannot represent
Infinity == 999999999

\* What one session.get can bring: a response with its status, whether its body
\* is JSON and its Retry-After header, or a requests.exceptions.RequestException
Response(status, json, retry_after) ==
    [failed |-> FALSE, status |-> status, json |-> json, retry_after |-> retry_after]
TransportFailure == [failed |-> TRUE, status |-> 0, json |-> FALSE, retry_after |-> NoneStr]
Responses ==
    {Response(200, TRUE, NoneStr), Response(200, FALSE, NoneStr),
     Response(429, TRUE, NoneStr), Response(429, TRUE, "8"),
     Response(429, TRUE, "soon"), Response(429, TRUE, "inf"),
     Response(404, TRUE, NoneStr), Response(500, FALSE, NoneStr),
     TransportFailure}

\* The clients __init__ builds (lines 127-158).  json_error_is_request_exception
\* is the installed requests library: from 2.27 on resp.json() raises
\* requests.exceptions.JSONDecodeError, a RequestException; before, a ValueError.
\* The response cache is left out: LRUCache defines __len__, so the empty cache
\* is falsy in the tests of lines 185 and 205, and nothing is ever stored.
Clients ==
    [max_retries : 0..MaxRetries, retry_base_delay : {RetryBaseDelay},
     json_error_is_request_exception : BOOLEAN, request_count : {0}, tracked : {0}]

\* A _get call that has not started
IdleGet ==
    [pc |-> "idle", attempt |-> 0, seen |-> <<>>, delays |-> <<>>,
     raised |-> NoneStr, status_code |-> NoneNum, data |-> NoneNum]

\* retry_base_delay * (2 ** attempt), lines 213 and 238
BackoffDelay(base, attempt) == base * Pow2(attempt)

\* The delay before the retry of a 429 response, lines 213-219: float() reads
\* "8" and "inf" (line 217) and raises ValueError for "soon" (line 218)
RateLimitDelay(base, attempt, retry_after) ==
    IF retry_after = "8" THEN Max(BackoffDelay(base, attempt), 8)
    ELSE IF retry_after = "inf" THEN Max(BackoffDelay(base, attempt), Infinity)
    ELSE BackoffDelay(base, attempt)

\* The branch of the try statement a response takes (lines 197-235)
ResponseBranch(c, resp) ==
    IF resp.failed THEN "RequestException"
    ELSE IF resp.status = 200 /\ resp.json THEN "return"
    ELSE IF resp.status = 200 /\ c.json_error_is_request_exception THEN "RequestException"
    ELSE IF resp.status = 200 THEN "ValueError"
    ELSE IF resp.status = 429 THEN "rate_limited"
    ELSE "other"

\* The delay of the retry the branch asks for
RetryDelay(c, h, resp) ==
    IF ResponseBranch(c, resp) = "rate_limited"
    THEN RateLimitDelay(c.retry_base_delay, h.attempt, resp.retry_after)
    ELSE BackoffDelay(c.retry_base_delay, h.attempt)

\* An exception leaves _get
Raises(h, exception, status_code) ==
    [h EXCEPT !.pc = "raised", !.raised = exception, !.status_code = status_code]
\* time.sleep(delay) and continue (lines 220-221, 240-241); time.sleep raises
\* OverflowError for a delay it cannot represent
Sleeps(h, delay) ==
    IF delay >= Infinity THEN Raises(h, "OverflowError", NoneNum)
    ELSE [h EXCEPT !.pc = "sleep", !.delays = Append(@, delay)]

\* A 429 response or a RequestException: retry while attempts are left, else
\* AeroAPIError with 429 (line 224) or 0 (line 242)
RetryOrRaise(c, h, resp, status_code) ==
    IF h.attempt < c.max_retries THEN Sleeps(h, RetryDelay(c, h, resp))
    ELSE Raises(h, "AeroAPIError", status_code)

\* One round of the loop of lines 195-242, the response in hand; the data
\* returned (line 208) is named by the position of its response
AfterResponse(c, h, resp) ==
    IF ResponseBranch(c, resp) = "return" THEN [h EXCEPT !.pc = "returned", !.data = Len(h.seen)]
    ELSE IF ResponseBranch(c, resp) = "rate_limited" THEN RetryOrRaise(c, h, resp, 429)
    ELSE IF ResponseBranch(c, resp) = "RequestException" THEN RetryOrRaise(c, h, resp, 0)
    ELSE IF ResponseBranch(c, resp) = "ValueError" THEN Raises(h, "ValueError", NoneNum)
    ELSE Raises(h, "AeroAPIError", resp.status)

\* self._request_count += 1 (line 198) and _track_cost (line 201)
Counted(c, resp) ==
    [c EXCEPT !.request_count = @ + (IF resp.failed THEN 0 ELSE 1),
              !.tracked = @ + (IF ~resp.failed /\ resp.status = 200 THEN 1 ELSE 0)]

\* _get is called (lines 179-195); range(max_retries + 1) is not empty
GetCall ==
    /\ http.pc \in {"idle", "returned", "raised"}
    /\ client.request_count + client.max_retries + 1 <= MaxRequests
    /\ http' = [IdleGet EXCEPT !.pc = "request"]
    /\ UNCHANGED <<file, cache, job, ret, loads, client, threadVars, dbVars, lruVars>>

\* session.get answers or fails, and the round of the loop runs up to its
\* return, raise or time.sleep (lines 196-242)
GetAttempt ==
    /\ http.pc = "request"
    /\ \E resp \in Responses :
           /\ http' = AfterResponse(client, [http EXCEPT !.seen = Append(@, resp)], resp)
           /\ client' = Counted(client, resp)
    /\ UNCHANGED <<file, cache, job, ret, loads, threadVars, dbVars, lruVars>>

\* time.sleep returns and the loop goes on with the next attempt
GetWake ==
    /\ http.pc = "sleep"
    /\ http' = [http EXCEPT !.pc = "request", !.attempt = @ + 1]
    /\ UNCHANGED <<file, cache, job, ret, loads, client, threadVars, dbVars, lruVars>>

NextApi == GetCall \/ GetAttempt \/ GetWake

InitSpecApi ==
    /\ InitModule /\ file = MissingFile /\ job = NoJob /\ InitDb /\ InitLru
    /\ client \in Clients
    /\ http = IdleGet

SpecApi == InitSpecApi /\ [][NextApi]_vars

-----------------------------------------------------------------------------
(* LRUCache: src/api/aeroapi.py lines 53-94.  The class takes no lock.  A    *)
(* thread can be switched out between any two statements; one operation of   *)
(* the OrderedDict (in, [], []=, del, move_to_end, popitem, len, clear) is    *)
(* one step, as it is under the interpreter lock.                            *)

\* _make_key (lines 61-64): the digest of the endpoint and of the sorted items
\* of "params or {}", written as the text that is hashed
_make_key(endpoint, params) ==
    <<endpoint, IF params = NoneParams THEN EmptyParams ELSE params>>

\* key in d
HasKey(d, key) == \E i \in 1..Len(d) : d[i].key = key
\* d[key], for a key that is in d
ItemOf(d, key) == d[CHOOSE i \in 1..Len(d) : d[i].key = key]
\* del d[key]
DelItem(d, key) == SelectSeq(d, LAMBDA e : e.key # key)
\* d[key] = (value, timestamp): a new key goes to the end, a key that is in d
\* keeps its place
SetItem(d, key, value, timestamp) ==
    IF HasKey(d, key)
    THEN [i \in 1..Len(d) |->
             IF d[i].key = key THEN [key |-> key, value |-> value, timestamp |-> timestamp]
             ELSE d[i]]
    ELSE Append(d, [key |-> key, value |-> value, timestamp |-> timestamp])
\* d.move_to_end(key), for a key that is in d
MoveToEnd(d, key) == Append(DelItem(d, key), ItemOf(d, key))

\* The thread's call ends with a return or with an exception
LruReturns(c, v) == [c EXCEPT !.pc = "returned", !.out = [done |-> TRUE, out |-> Returned(v)]]
LruRaises(c, e) == [c EXCEPT !.pc = "raised", !.out = [done |-> TRUE, out |-> Raised(e)]]

LruRest == <<file, cache, job, ret, loads, threadVars, dbVars, apiVars>>

\* A thread calls get, set or clear; the key is made first (lines 68 and 82)
LruCall(t) ==
    /\ caller[t].pc \in {"idle", "returned", "raised"}
    /\ ncalls < MaxLruCalls
    /\ ncalls' = ncalls + 1
    /\ \E req \in LruRequests :
          \/ caller' = [caller EXCEPT ![t] =
                 [IdleCaller EXCEPT !.pc = "get_69", !.op = "get",
                                    !.key = _make_key(req.endpoint, req.params)]]
          \/ \E n \in LruVersions :
                caller' = [caller EXCEPT ![t] =
                   [IdleCaller EXCEPT !.pc = "set_83", !.op = "set",
                                      !.key = _make_key(req.endpoint, req.params),
                                      !.value = [endpoint |-> req.endpoint, n |-> n]]]
          \/ /\ req.params = NoneParams /\ req.endpoint = "/aircraft/N1"
             /\ caller' = [caller EXCEPT ![t] =
                   [IdleCaller EXCEPT !.pc = "clear_91", !.op = "clear"]]
    /\ UNCHANGED <<lru, clock, LruRest>>

\* Line 69: if key in self._cache; line 78 when it is not
Get69(t) ==
    /\ caller[t].pc = "get_69"
    /\ caller' = [caller EXCEPT ![t] =
          IF HasKey(lru, caller[t].key) THEN [@ EXCEPT !.pc = "get_70"]
          ELSE LruReturns(@, NoneValue)]
    /\ UNCHANGED <<lru, clock, ncalls, LruRest>>

\* Lines 70-71: value, timestamp = self._cache[key], a KeyError when the key
\* is gone, and the test against the ttl
Get70(t) ==
    /\ caller[t].pc = "get_70"
    /\ caller' = [caller EXCEPT ![t] =
          IF ~HasKey(lru, caller[t].key) THEN LruRaises(@, "KeyError")
          ELSE IF clock - ItemOf(lru, caller[t].key).timestamp < LruTtl
               THEN [@ EXCEPT !.pc = "get_73", !.held = ItemOf(lru, caller[t].key).value]
               ELSE [@ EXCEPT !.pc = "get_77", !.held = ItemOf(lru, caller[t].key).value]]
    /\ UNCHANGED <<lru, clock, ncalls, LruRest>>

\* Lines 73-74: self._cache.move_to_end(key), a KeyError when the key is
\* gone, and return value
Get73(t) ==
    /\ caller[t].pc = "get_73"
    /\ IF HasKey(lru, caller[t].key)
       THEN /\ lru' = MoveToEnd(lru, caller[t].key)
            /\ caller' = [caller EXCEPT ![t] = LruReturns(@, caller[t].held)]
       ELSE /\ lru' = lru
            /\ caller' = [caller EXCEPT ![t] = LruRaises(@, "KeyError")]
    /\ UNCHANGED <<clock, ncalls, LruRest>>

\* Lines 77-78: del self._cache[key], a KeyError when the key is gone, and
\* return None
Get77(t) ==
    /\ caller[t].pc = "get_77"
    /\ IF HasKey(lru, caller[t].key)
       THEN /\ lru' = DelItem(lru, caller[t].key)
            /\ caller' = [caller EXCEPT ![t] = LruReturns(@, NoneValue)]
       ELSE /\ lru' = lru
            /\ caller' = [caller EXCEPT ![t] = LruRaises(@, "KeyError")]
    /\ UNCHANGED <<clock, ncalls, LruRest>>

\* Line 83: self._cache[key] = (value, time.time())
Set83(t) ==
    /\ caller[t].pc = "set_83"
    /\ lru' = SetItem(lru, caller[t].key, caller[t].value, clock)
    /\ caller' = [caller EXCEPT ![t].pc = "set_84"]
    /\ UNCHANGED <<clock, ncalls, LruRest>>

\* Line 84: self._cache.move_to_end(key), a KeyError when the key is gone
Set84(t) ==
    /\ caller[t].pc = "set_84"
    /\ IF HasKey(lru, caller[t].key)
       THEN /\ lru' = MoveToEnd(lru, caller[t].key)
            /\ caller' = [caller EXCEPT ![t].pc = "set_86"]
       ELSE /\ lru' = lru
            /\ caller' = [caller EXCEPT ![t] = LruRaises(@, "KeyError")]
    /\ UNCHANGED <<clock, ncalls, LruRest>>

\* Line 86: while len(self._cache) > self.maxsize; the call returns None when
\* it is not
Set86(t) ==
    /\ caller[t].pc = "set_86"
    /\ caller' = [caller EXCEPT ![t] =
          IF Len(lru) > LruMaxsize THEN [@ EXCEPT !.pc = "set_87"]
          ELSE LruReturns(@, NoneValue)]
    /\ UNCHANGED <<lru, clock, ncalls, LruRest>>

\* Line 87: self._cache.popitem(last=False), a KeyError when the dictionary
\* is empty
Set87(t) ==
    /\ caller[t].pc = "set_87"
    /\ IF lru # <<>>
       THEN /\ lru' = Tail(lru)
            /\ caller' = [caller EXCEPT ![t].pc = "set_86"]
       ELSE /\ lru' = lru
            /\ caller' = [caller EXCEPT ![t] = LruRaises(@, "KeyError")]
    /\ UNCHANGED <<clock, ncalls, LruRest>>

\* Line 91: self._cache.clear()
Clear91(t) ==
    /\ caller[t].pc = "clear_91"
    /\ lru' = <<>>
    /\ caller' = [caller EXCEPT ![t] = LruReturns(@, NoneValue)]
    /\ UNCHANGED <<clock, ncalls, LruRest>>

\* A second passes
LruTick ==
    /\ clock < MaxClock
    /\ clock' = clock + 1
    /\ UNCHANGED <<lru, caller, ncalls, LruRest>>

NextCache ==
    \/ \E t \in LruThreads : LruCall(t)
    \/ \E t \in LruThreads : Get69(t)
    \/ \E t \in LruThreads : Get70(t)
    \/ \E t \in LruThreads : Get73(t)
    \/ \E t \in LruThreads : Get77(t)
    \/ \E t \in LruThreads : Set83(t)
    \/ \E t \in LruThreads : Set84(t)
    \/ \E t \in LruThreads : Set86(t)
    \/ \E t \in LruThreads : Set87(t)
    \/ \E t \in LruThreads : Clear91(t)
    \/ LruTick

InitSpecCache ==
    /\ InitModule /\ file = MissingFile /\ job = NoJob /\ InitDb /\ InitNoClient /\ InitLru

SpecCache == InitSpecCache /\ [][NextCache]_vars

-----------------------------------------------------------------------------
(* Properties *)

Done(op) == job.op = op /\ ret.done
Value == ret.out.value

\* The observer list calculate_flight_noise_impact works with
EffectiveObservers == IF job.observers = NoneObservers THEN OBSERVER_LOCATIONS ELSE job.observers

\* The items of the file's table whose key is the upper-cased code
ItemsFor(code) ==
    {i \in 1..Len(file.mappings) :
        file.exists /\ code # NoneCode /\ StrUpper(file.mappings[i][1]) = StrUpper(code)}

\* C1: calculate_flight_noise_impact with an empty track and a non-empty
\* observer list returns normally, with max_ground_db = 0, avg_ground_db = 0,
\* exposure_seconds = 0 and one impact record per configured observer.
C1_EmptyTrackReturnsZeros ==
    (Done("calculate_flight_noise_impact") /\ job.track = <<>> /\ job.observers # <<>>)
    => /\ ret.out.raised = ""
       /\ Value.max_ground_db = 0
       /\ Value.avg_ground_db = 0
       /\ Value.exposure_seconds = 0
       /\ Len(Value.observer_impacts) = Len(EffectiveObservers)

\* C2: get_noise_profile never raises and returns a profile with numeric
\* takeoff and approach levels, for every type code and every category hint.
C2_ProfileAlwaysUsable ==
    Done("get_noise_profile")
    => /\ ret.out.raised = ""
       /\ Value.takeoff_db # NoneNum
       /\ Value.approach_db # NoneNum

C4_LevelNeverNegative ==
    (Done("calculate_ground_noise") /\ ret.out.raised = "") => Value.db >= 0

\* C4 witness: a 10 dB source 20000 ft up, whose attenuation exceeds the source
\* level, and the level is reported as 0
C4_Witness ==
    /\ Done("calculate_ground_noise")
    /\ job.source_db = 10 * DB
    /\ job.altitude_ft = 20000
    /\ Value.geometric_attenuation + Value.atmospheric_attenuation > job.source_db
    /\ Value.db = 0

\* C5: concurrent calls of get_noise_profile each return the profile that a
\* sequential call made after the load returns, in every interleaving.
C5_ConcurrentCallsAgree ==
    \A t \in Threads :
        pc[t] = "done"
        => tres[t] = GetNoiseProfile(EmptyDict, file, targ[t].icao_type, targ[t].category)

\* C6: when the type code is not in the table, the profile returned has the
\* default level of the hinted category as takeoff level (80 dB, the default
\* of unknown, for an absent or unrecognized hint), approach = takeoff - 4,
\* data_source CATEGORY_ESTIMATE and confidence low.
C6_FallbackIsCategoryDefault ==
    (Done("get_noise_profile") /\ ItemsFor(job.icao_type) = {})
    => /\ Value.takeoff_db = (CASE job.category = "helicopter" -> 84 * DB
                                [] job.category = "jet" -> 88 * DB
                                [] job.category = "fixed_wing" -> 76 * DB
                                [] OTHER -> 80 * DB)
       /\ Value.approach_db = Value.takeoff_db - 4 * DB
       /\ Value.data_source = "CATEGORY_ESTIMATE"
       /\ Value.confidence = "low"

\* C6 witness: the code ZZZZ with hint unknown, against a loaded table, gives 80 dB
C6_Witness ==
    /\ Done("get_noise_profile")
    /\ file = FallbackFile
    /\ job.icao_type = ZZZZ
    /\ job.category = "unknown"
    /\ Value.takeoff_db = 80 * DB
    /\ Value.approach_db = 76 * DB

\* C7: for a type code that is in the table, get_noise_profile returns the
\* table entry unchanged, whatever the letter case of the code and whatever
\* the category hint.
C7_LookupIgnoresCaseAndHint ==
    Done("get_noise_profile")
    => \A i \in ItemsFor(job.icao_type) :
          /\ Value.icao_type = StrUpper(file.mappings[i][1])
          /\ Value.manufacturer = file.mappings[i][2].easa_manufacturer
          /\ Value.model = file.mappings[i][2].easa_model
          /\ Value.category = file.mappings[i][2].category
          /\ Value.takeoff_db = file.mappings[i][2].takeoff_db
          /\ Value.approach_db = file.mappings[i][2].approach_db
          /\ Value.data_source = file.mappings[i][2].data_source
          /\ Value.confidence = file.mappings[i][2].confidence

\* C7 witness: the lower-case code s76 with the hint jet returns the
\* helicopter entry of S76
C7_Witness ==
    /\ Done("get_noise_profile")
    /\ file = FallbackFile
    /\ job.icao_type = s76
    /\ job.category = "jet"
    /\ Value.icao_type = S76
    /\ Value.category = "helicopter"
    /\ Value.takeoff_db = 88 * DB

\* The same call as the job's, from another altitude
AtAltitude(altitude_ft) ==
    calculate_ground_noise(job.source_db, altitude_ft, job.observer[1], job.observer[2],
                           job.aircraft[1], job.aircraft[2], job.heading).value

\* C8 as claimed: for a fixed source level and heading, a larger slant
\* distance gives a strictly smaller db, or an equal db only when both
\* distances are at or below the 100 ft floor.
C8_StrictlyDecreasing ==
    Done("calculate_ground_noise")
    => \A a \in Altitudes :
          AtAltitude(a).slant_distance_ft > Value.slant_distance_ft
          => \/ AtAltitude(a).db < Value.db
             \/ /\ AtAltitude(a).db = Value.db
                /\ AtAltitude(a).slant_distance_ft <= 100

\* C8 as amended: a larger slant distance never gives a larger db, and gives a
\* strictly smaller db when it is at least twice the nearer distance (taken as
\* 100 ft when below the floor) and the nearer level is above 0.
C8_NeverIncreasing ==
    Done("calculate_ground_noise")
    => \A a \in Altitudes :
          AtAltitude(a).slant_distance_ft > Value.slant_distance_ft
          => /\ AtAltitude(a).db <= Value.db
             /\ (/\ AtAltitude(a).slant_distance_ft >= 2 * Max(Value.slant_distance_ft, 100)
                 /\ Value.db > 0)
                => AtAltitude(a).db < Value.db

\* C8 witness: 1000 ft and 1001 ft above the observer give the same 87.5 dB,
\* and 5000 ft gives less
C8_Witness ==
    /\ Done("calculate_ground_noise")
    /\ job.source_db = 88 * DB
    /\ job.heading = NoneNum
    /\ Value.slant_distance_ft = 1000
    /\ Value.db = 87500
    /\ AtAltitude(1001).slant_distance_ft = 1001
    /\ AtAltitude(1001).db = 87500
    /\ AtAltitude(5000).db < 87500

\* C9: get_lateral_attenuation is 0.0 at 0 and 10.0 at 90 degrees, is
\* non-decreasing over [0, 90], returns the tabulated value at every
\* breakpoint and interpolates linearly between neighbouring breakpoints.
C9_LateralTable ==
    Done("get_lateral_attenuation")
    => LET a == job.angle_degrees
           T == LATERAL_ATTENUATION_TABLE
       IN  /\ a = 0 => Value = 0
           /\ a = 90 * DEG => Value = 10 * DB
           /\ (0 <= a /\ a < 90 * DEG) => Value <= get_lateral_attenuation(a + 1)
           /\ \A i \in 1..Len(T) : a = T[i][1] => Value = T[i][2]
           /\ \A i \in 1..(Len(T) - 1) :
                 (T[i][1] <= a /\ a <= T[i + 1][1])
                 => Value * (T[i + 1][1] - T[i][1])
                    = T[i][2] * (T[i + 1][1] - T[i][1]) + (a - T[i][1]) * (T[i + 1][2] - T[i][2])

\* C9 witness: 45 degrees, halfway between 4.0 dB and 5.5 dB
C9_Witness ==
    /\ Done("get_lateral_attenuation")
    /\ job.angle_degrees = 45 * DEG
    /\ Value = 4750

\* C10 as claimed: every angle above 90 degrees yields 10.0 and every angle
\* below 0 yields 0.0.
C10_ClampsAtBothEnds ==
    Done("get_lateral_attenuation")
    => /\ job.angle_degrees > 90 * DEG => Value = 10 * DB
       /\ job.angle_degrees < 0 => Value = 0

\* C10 as amended: the value never leaves [0.0, 10.0]; every angle above 90
\* degrees and every angle below -90 degrees yields 10.0, and a negative angle
\* yields the value of its absolute value.
C10_SaturatesOnAbsoluteAngle ==
    Done("get_lateral_attenuation")
    => /\ 0 <= Value /\ Value <= 10 * DB
       /\ job.angle_degrees > 90 * DEG => Value = 10 * DB
       /\ job.angle_degrees < -(90 * DEG) => Value = 10 * DB
       /\ job.angle_degrees < 0 => Value = get_lateral_attenuation(-job.angle_degrees)

\* C10 witness: -45 degrees yields the 4.75 dB of 45 degrees
C10_Witness ==
    /\ Done("get_lateral_attenuation")
    /\ job.angle_degrees = -(45 * DEG)
    /\ Value = 4750

\* The same call as the job's, with another heading
AtHeading(heading) ==
    calculate_ground_noise(job.source_db, job.altitude_ft, job.observer[1], job.observer[2],
                           job.aircraft[1], job.aircraft[2], heading).value

\* C11: for an aircraft directly over the observer with a known heading,
\* calculate_ground_noise reports lateral attenuation 0.0 dB, and the level is
\* the one the geometric and atmospheric terms alone give, whatever the heading.
C11_OverheadHasNoLateralTerm ==
    (Done("calculate_ground_noise") /\ job.aircraft = job.observer /\ job.heading # NoneNum)
    => /\ ret.out.raised = ""
       /\ Value.lateral_attenuation = 0
       /\ Value.db = AtHeading(NoneNum).db
       /\ \A h \in Headings \ {NoneNum} : AtHeading(h).db = Value.db

\* C12: with the heading absent calculate_ground_noise returns an estimate
\* whose lateral attenuation is exactly 0; with any heading given, 0 degrees
\* included, the lateral attenuation is the table value of the lateral angle.
C12_LateralTermOmittedOnlyWithoutHeading ==
    Done("calculate_ground_noise")
    => /\ ret.out.raised = ""
       /\ job.heading = NoneNum => Value.lateral_attenuation = 0
       /\ job.heading # NoneNum
          => Value.lateral_attenuation
             = RoundTenth(get_lateral_attenuation(
                   calculate_lateral_angle(job.observer[1], job.observer[2],
                                           job.aircraft[1], job.aircraft[2], job.heading)))

\* C12 witness: heading 0, the observer abeam of the aircraft: 10 dB of
\* lateral attenuation, which the same call without heading does not have
C12_Witness ==
    /\ Done("calculate_ground_noise")
    /\ job.heading = 0
    /\ Value.lateral_attenuation = 10 * DB
    /\ AtHeading(NoneNum).lateral_attenuation = 0
    /\ AtHeading(NoneNum).db > Value.db

\* The level calculate_noise_at_position gives for sample i of the job's
\* track at the observer obs
LevelAt(obs, i) ==
    calculate_noise_at_position(cache, file, job.icao_type, job.track[i], obs.lat, obs.lon,
                                job.direction, job.category).value.db

\* The result of the job's flight-impact call made with another observer list
WithObservers(observers) ==
    calculate_flight_noise_impact(cache, file, "f1", job.icao_type, job.track,
                                  job.direction, job.category, observers).value

FlightReturned == Done("calculate_flight_noise_impact") /\ ret.out.raised = ""

\* C13: max_ground_db is the maximum and avg_ground_db the mean, rounded to
\* 0.1 dB, of the levels of the track's samples at the first observer of the
\* list; the other observers of the list, and their order, do not change them.
C13_SummaryIsOfFirstObserver ==
    FlightReturned
    => LET n == Len(job.track)
           first == EffectiveObservers[1]
       IN  /\ \A i \in 1..n : LevelAt(first, i) <= Value.max_ground_db
           /\ \E i \in 1..n : LevelAt(first, i) = Value.max_ground_db
           /\ Value.avg_ground_db % 100 = 0
           /\ Abs(Value.avg_ground_db * n - SumSeq([i \in 1..n |-> LevelAt(first, i)]))
              <= 50 * n
           /\ \A others \in {<<first>>, <<first, OBSERVER_LOCATIONS[1]>>,
                             <<first, OBSERVER_LOCATIONS[3]>>,
                             <<first, OBSERVER_LOCATIONS[3], OBSERVER_LOCATIONS[1]>>} :
                 /\ WithObservers(others).max_ground_db = Value.max_ground_db
                 /\ WithObservers(others).avg_ground_db = Value.avg_ground_db

\* C13 witness: two samples and two observers, the second of which hears a
\* different maximum than the one reported for the track
C13_Witness ==
    /\ FlightReturned
    /\ Len(job.track) = 2
    /\ job.observers = <<OBSERVER_LOCATIONS[1], OBSERVER_LOCATIONS[3]>>
    /\ LevelAt(OBSERVER_LOCATIONS[1], 1) # LevelAt(OBSERVER_LOCATIONS[1], 2)
    /\ Value.max_ground_db = Value.observer_impacts[1].max_db
    /\ Value.max_ground_db # Value.observer_impacts[2].max_db
    /\ Value.avg_ground_db < Value.max_ground_db

\* C14: exposure_seconds is 5 times the number of samples of the track, and
\* for every observer time_above_65db (time_above_75db) is 5 times the number
\* of samples whose level at that observer is >= 65 dB (>= 75 dB).
C14_DurationsAreSampleCounts ==
    FlightReturned
    => /\ Value.exposure_seconds = 5 * Len(job.track)
       /\ \A k \in 1..Len(EffectiveObservers) :
             /\ Value.observer_impacts[k].time_above_65db
                = 5 * Cardinality({i \in 1..Len(job.track) :
                                      LevelAt(EffectiveObservers[k], i) >= 65 * DB})
             /\ Value.observer_impacts[k].time_above_75db
                = 5 * Cardinality({i \in 1..Len(job.track) :
                                      LevelAt(EffectiveObservers[k], i) >= 75 * DB})

\* C14 witness: of two samples, the one of exactly 75.0 dB at the second
\* observer counts as 5 seconds at or above 75 dB, the quieter one does not
C14_Witness ==
    /\ FlightReturned
    /\ Len(job.track) = 2
    /\ Len(EffectiveObservers) = 2
    /\ LevelAt(EffectiveObservers[2], 1) < 75 * DB
    /\ LevelAt(EffectiveObservers[2], 2) = 75 * DB
    /\ Value.observer_impacts[2].time_above_75db = 5
    /\ Value.observer_impacts[2].time_above_65db = 5
    /\ Value.exposure_seconds = 10

\* C15: the call returns one impact record per observer, in the order of the
\* list, and the record of an observer is the record the same call returns
\* when that observer is the only one in the list.
C15_OneIndependentRecordPerObserver ==
    FlightReturned
    => /\ Len(Value.observer_impacts) = Len(EffectiveObservers)
       /\ \A k \in 1..Len(EffectiveObservers) :
             /\ Value.observer_impacts[k].observer_id = EffectiveObservers[k].id
             /\ Value.observer_impacts[k]
                = WithObservers(<<EffectiveObservers[k]>>).observer_impacts[1]

\* C15 witness: two observers in the order runway approach, Wainscott, with
\* records in that order that differ in their maximum
C15_Witness ==
    /\ FlightReturned
    /\ job.observers = <<OBSERVER_LOCATIONS[3], OBSERVER_LOCATIONS[1]>>
    /\ Value.observer_impacts[1].observer_id = "runway-approach"
    /\ Value.observer_impacts[2].observer_id = "wainscott-main"
    /\ Value.observer_impacts[1].max_db # Value.observer_impacts[2].max_db

\* C16: a call of calculate_noise_at_position or calculate_flight_noise_impact
\* leaves its arguments (the positions of the track, the observer list) as
\* they were, and leaves every profile that was in the cache in the cache,
\* unchanged.
C16_CallsOnlyFillTheCache ==
    [][job.op \in {"calculate_noise_at_position", "calculate_flight_noise_impact"}
       => /\ job' = job
          /\ \A k \in DOMAIN cache : k \in DOMAIN cache' /\ cache'[k] = cache[k]]_vars

\* C16 witness: a flight-impact call over the default observers has returned
\* and the cache holds the profiles of the file
C16_Witness ==
    /\ FlightReturned
    /\ job.observers = NoneObservers
    /\ Len(job.track) = 2
    /\ DOMAIN cache = {R44, S76, C172}
    /\ cache[S76].takeoff_db = 88 * DB

\* C18: calculate_horizontal_distance_ft gives the same distance with its two
\* points exchanged, and 0 for two identical points.
C18_DistanceIsSymmetric ==
    Done("calculate_ground_noise")
    => /\ Value.horizontal_distance_ft
          = calculate_horizontal_distance_ft(job.observer[1], job.observer[2],
                                             job.aircraft[1], job.aircraft[2])
       /\ Value.horizontal_distance_ft
          = calculate_horizontal_distance_ft(job.aircraft[1], job.aircraft[2],
                                             job.observer[1], job.observer[2])
       /\ job.aircraft = job.observer => Value.horizontal_distance_ft = 0

\* C18 witness: the observer at Wainscott and the aircraft west of the
\* airport, three miles apart, at different latitudes
C18_Witness ==
    /\ Done("calculate_ground_noise")
    /\ job.observer = <<409445, -722337>>
    /\ job.aircraft = <<409600, -722900>>
    /\ Value.horizontal_distance_ft > 16000

\* C17: once a first call has returned, no later call opens the reference file
\* again or changes the cache, whatever the file holds.
C17_LoadedOnceThenImmutable ==
    [][ret.done => (loads' = loads /\ cache' = cache)]_vars

\* The rows a call added to the flights table
AddedBy == rows \ dbret.before

\* C19: insert_flight returns True exactly when the call added a row, and
\* pull_date counts as inserted the rows it added and as skipped the rest.
C19_InsertedMeansAdded ==
    /\ (dbret.done /\ dbret.op = "insert_flight") => (dbret.returned <=> AddedBy # {})
    /\ (dbret.done /\ dbret.op = "pull_date") =>
           /\ dbret.inserted = Cardinality(AddedBy)
           /\ dbret.skipped = dbret.total - Cardinality(AddedBy)

\* The responses of the call that were followed by a retry
Retried == {i \in 1..Len(http.seen) : i < Len(http.seen) \/ http.pc = "sleep"}
LastSeen == http.seen[Len(http.seen)]

\* C20: a _get call retries only 429 responses and transport failures, each
\* after a delay of at least retry_base_delay * 2^attempt; it makes at most
\* max_retries + 1 attempts; it raises AeroAPIError(429) when every attempt was
\* rate-limited, returns the data of the first 200 response, and raises
\* AeroAPIError with the status at once on any other status.
C20_RetriesOnlyRateLimitsAndFailures ==
    /\ Len(http.seen) <= client.max_retries + 1
    /\ \A i \in Retried : http.seen[i].failed \/ http.seen[i].status = 429
    /\ \A i \in 1..Len(http.delays) : http.delays[i] >= BackoffDelay(client.retry_base_delay, i - 1)
    /\ (http.pc \in {"returned", "raised"} /\ \A i \in 1..Len(http.seen) : http.seen[i].status = 429)
           => (http.raised = "AeroAPIError" /\ http.status_code = 429)
    /\ (http.seen # <<>> /\ LastSeen.status = 200)
           => (http.pc = "returned" /\ http.data = Len(http.seen))
    /\ (http.seen # <<>> /\ LastSeen.status \notin {0, 200, 429})
           => (http.pc = "raised" /\ http.raised = "AeroAPIError" /\ http.status_code = LastSeen.status)

\* The bearing from the job's aircraft position to its observer
BearingToObserver ==
    calculate_bearing(job.aircraft[1], job.aircraft[2], job.observer[1], job.observer[2])

\* C23: for a heading in [0, 360] calculate_lateral_angle returns a value in
\* [0, 90]: the absolute difference d between the bearing to the observer and
\* the heading when d <= 90, 360 - d when d >= 270, and 90 in between.
C23_LateralAngleFolded ==
    Done("calculate_lateral_angle")
    => /\ 0 <= Value /\ Value <= 90 * DEG
       /\ Abs(BearingToObserver - job.heading) <= 90 * DEG
              => Value = Abs(BearingToObserver - job.heading)
       /\ Abs(BearingToObserver - job.heading) >= 270 * DEG
              => Value = 360 * DEG - Abs(BearingToObserver - job.heading)
       /\ (Abs(BearingToObserver - job.heading) > 90 * DEG
              /\ Abs(BearingToObserver - job.heading) < 270 * DEG)
              => Value = 90 * DEG

\* C23 witness: a difference above 180 degrees that wraps to an angle below 90
C23_Witness ==
    /\ Done("calculate_lateral_angle")
    /\ Abs(BearingToObserver - job.heading) > 270 * DEG
    /\ Value = 360 * DEG - Abs(BearingToObserver - job.heading)
    /\ 0 < Value /\ Value < 90 * DEG

\* The true slant distance of the job's geometry, and its lateral term
TrueSlant ==
    calculate_slant_distance_ft(job.altitude_ft,
        calculate_horizontal_distance_ft(job.observer[1], job.observer[2],
                                         job.aircraft[1], job.aircraft[2]))
JobLateralTerm ==
    LateralTerm(job.observer[1], job.observer[2], job.aircraft[1], job.aircraft[2], job.heading)

\* C24: for a geometry whose slant distance is below 100 ft the level and the
\* geometric and atmospheric terms are those of 100 ft with the same lateral
\* term, and the slant distance reported is 100 ft.
C24_SlantFlooredAt100 ==
    (Done("calculate_ground_noise") /\ TrueSlant < 100)
    => /\ Value.db = FinalLevel(job.source_db
                                - TwentyLog10(100, CERTIFICATION_REFERENCE_DISTANCE_FT)
                                - (100 * ATMOSPHERIC_ABSORPTION_COEFFICIENT) \div 1000
                                - JobLateralTerm)
       /\ Value.geometric_attenuation
          = RoundTenth(TwentyLog10(100, CERTIFICATION_REFERENCE_DISTANCE_FT))
       /\ Value.atmospheric_attenuation
          = RoundTenth((100 * ATMOSPHERIC_ABSORPTION_COEFFICIENT) \div 1000)
       /\ Value.slant_distance_ft = 100

\* source_db minus the geometric, atmospheric and lateral terms of the job's
\* geometry, before rounding, in milli-dB
UnroundedLevel ==
    job.source_db
    - TwentyLog10(Max(TrueSlant, 100), CERTIFICATION_REFERENCE_DISTANCE_FT)
    - (Max(TrueSlant, 100) * ATMOSPHERIC_ABSORPTION_COEFFICIENT) \div 1000
    - JobLateralTerm

\* C25: the level returned is source_db minus the three attenuation terms,
\* rounded to 0.1 dB (ties to even) and floored at 0: a multiple of 0.1 dB
\* within 0.05 dB of the difference when that is positive, and exactly 0 when
\* the source level is below the total attenuation.
C25_LevelIsRoundedDifference ==
    Done("calculate_ground_noise")
    => /\ Value.db >= 0 /\ Value.db % 100 = 0
       /\ UnroundedLevel <= 0 => Value.db = 0
       /\ UnroundedLevel > 0
              => /\ 2 * Abs(Value.db - UnroundedLevel) <= 100
                 /\ (2 * Abs(Value.db - UnroundedLevel) = 100) => (Value.db \div 100) % 2 = 0

\* C25 witness: a source level below the attenuation of a distant aircraft that
\* is also attenuated laterally gives exactly 0
C25_Witness ==
    /\ Done("calculate_ground_noise")
    /\ JobLateralTerm > 0
    /\ UnroundedLevel < 0
    /\ Value.db = 0

\* The profile the job's type code and category resolve to
JobProfile == GetNoiseProfile(cache, file, job.icao_type, job.category)

\* calculate_ground_noise for the job's position and observer, unchanged, with
\* the source level source_db
GroundNoiseFrom(source_db) ==
    calculate_ground_noise(source_db, job.position.altitude_ft,
                           job.observer[1], job.observer[2],
                           job.position.latitude, job.position.longitude,
                           job.position.heading).value

PositionReturned == Done("calculate_noise_at_position") /\ ret.out.raised = ""

\* C26: the estimate of calculate_noise_at_position is the one the attenuation
\* model gives for the position's latitude, longitude, altitude and heading
\* and the observer's coordinates, from the profile's approach level when
\* direction is "arrival" and from its takeoff level for any other direction.
C26_SourceLevelByDirection ==
    PositionReturned
    => /\ job.direction = "arrival"
              => [Value EXCEPT !.source = "CALCULATED", !.confidence = "high", !.warning = NoWarning]
                 = GroundNoiseFrom(JobProfile.approach_db)
       /\ job.direction # "arrival"
              => [Value EXCEPT !.source = "CALCULATED", !.confidence = "high", !.warning = NoWarning]
                 = GroundNoiseFrom(JobProfile.takeoff_db)

\* C26 witness: direction "Arrival" is not "arrival": the level is the one of
\* the takeoff level, which differs from the one of the approach level
C26_Witness ==
    /\ PositionReturned
    /\ job.direction = "Arrival"
    /\ Value.db = GroundNoiseFrom(JobProfile.takeoff_db).db
    /\ Value.db # GroundNoiseFrom(JobProfile.approach_db).db

\* C27: the estimate carries the data_source and the confidence of the
\* resolved profile; when the data_source is not EASA_CERTIFIED its warning
\* names the type code as passed and the profile's category, and when it is
\* EASA_CERTIFIED there is no warning.
C27_EstimateCarriesProfileSource ==
    PositionReturned
    => /\ Value.source = JobProfile.data_source
       /\ Value.confidence = JobProfile.confidence
       /\ JobProfile.data_source # "EASA_CERTIFIED"
              => Value.warning = <<"No EASA data for ", job.icao_type, ". Using ",
                                   JobProfile.category, " average.">>
       /\ JobProfile.data_source = "EASA_CERTIFIED" => Value.warning = NoWarning

\* C27 witness: a type found in the table as a category estimate gets the
\* warning; its source is not the CALCULATED of the attenuation model
C27_Witness ==
    /\ PositionReturned
    /\ file = ParsedFile
    /\ job.icao_type = C172
    /\ Value.source = "CATEGORY_ESTIMATE"
    /\ Value.warning # NoWarning

\* The slant distance in feet between sample i of the job's track and obs
SlantAt(obs, i) ==
    calculate_slant_distance_ft(job.track[i].altitude_ft,
        calculate_horizontal_distance_ft(obs.lat, obs.lon,
                                         job.track[i].latitude, job.track[i].longitude))

\* C28: for a track that is not empty, the closest_approach_ft of every
\* observer's record is the least slant distance, in whole feet, between a
\* sample of the track and that observer, and its max_db is the greatest level
\* of a sample at that observer.
C28_RecordHoldsClosestAndLoudest ==
    (FlightReturned /\ Len(job.track) > 0)
    => \A k \in 1..Len(EffectiveObservers) :
          LET obs == EffectiveObservers[k]
              rec == Value.observer_impacts[k]
              slants == [i \in 1..Len(job.track) |-> SlantAt(obs, i)]
              levels == [i \in 1..Len(job.track) |-> LevelAt(obs, i)]
          IN  /\ \A i \in 1..Len(job.track) : slants[i] >= rec.closest_approach_ft
              /\ \E i \in 1..Len(job.track) : slants[i] = rec.closest_approach_ft
              /\ \A i \in 1..Len(job.track) : levels[i] <= rec.max_db
              /\ \E i \in 1..Len(job.track) : levels[i] = rec.max_db

\* C28 witness: two samples and two observers; Wainscott is closest to the
\* first sample and the runway approach to the second, which is also the
\* louder one there
C28_Witness ==
    /\ FlightReturned
    /\ Len(job.track) = 2
    /\ job.observers = <<OBSERVER_LOCATIONS[1], OBSERVER_LOCATIONS[3]>>
    /\ SlantAt(OBSERVER_LOCATIONS[1], 1) < SlantAt(OBSERVER_LOCATIONS[1], 2)
    /\ SlantAt(OBSERVER_LOCATIONS[3], 2) < SlantAt(OBSERVER_LOCATIONS[3], 1)
    /\ Value.observer_impacts[1].closest_approach_ft = SlantAt(OBSERVER_LOCATIONS[1], 1)
    /\ Value.observer_impacts[2].closest_approach_ft = SlantAt(OBSERVER_LOCATIONS[3], 2)
    /\ Value.observer_impacts[2].max_db = LevelAt(OBSERVER_LOCATIONS[3], 2)
    /\ LevelAt(OBSERVER_LOCATIONS[3], 1) < LevelAt(OBSERVER_LOCATIONS[3], 2)

\* C29: in every result the call returns, max_ground_db is the max_db of the
\* first observer's record, and avg_ground_db is at most max_ground_db.
C29_TrackMaximumIsFirstRecords ==
    FlightReturned
    => /\ Len(Value.observer_impacts) >= 1
       /\ Value.max_ground_db = Value.observer_impacts[1].max_db
       /\ Value.avg_ground_db <= Value.max_ground_db

\* C29 witness: two samples heard by the default observers; the average at
\* Wainscott is below the maximum there, which is the first record's and not
\* the third's
C29_Witness ==
    /\ FlightReturned
    /\ job.observers = NoneObservers
    /\ Len(job.track) = 2
    /\ Value.observer_impacts[1].observer_id = "wainscott-main"
    /\ Value.max_ground_db = Value.observer_impacts[1].max_db
    /\ Value.max_ground_db # Value.observer_impacts[3].max_db
    /\ Value.avg_ground_db < Value.max_ground_db
    /\ Value.avg_ground_db > 0

\* C30: in every result the call returns, every observer's record has
\* 0 <= time_above_75db <= time_above_65db <= exposure_seconds, and
\* track_count * 5 = exposure_seconds.
C30_DurationsAreOrdered ==
    FlightReturned
    => /\ Value.track_count * 5 = Value.exposure_seconds
       /\ \A k \in 1..Len(Value.observer_impacts) :
             /\ 0 <= Value.observer_impacts[k].time_above_75db
             /\ Value.observer_impacts[k].time_above_75db
                <= Value.observer_impacts[k].time_above_65db
             /\ Value.observer_impacts[k].time_above_65db <= Value.exposure_seconds

\* C30 witness: two samples, of which an observer hears one at 65 dB or more
\* and none at 75 dB or more
C30_Witness ==
    /\ FlightReturned
    /\ Value.track_count = 2
    /\ Value.exposure_seconds = 10
    /\ \E k \in 1..Len(Value.observer_impacts) :
          /\ Value.observer_impacts[k].time_above_75db = 0
          /\ Value.observer_impacts[k].time_above_65db = 5


\* C21: LRUCache is thread-safe.  Under every interleaving of get, set and
\* clear calls of several threads on one LRUCache: no call raises; when no
\* set call is between its insertion and its return, the cache holds at most
\* maxsize entries; and the value a get call returns is None or a value that
\* was stored for the key of the call.
C21_LRUCacheIsThreadSafe ==
    /\ \A t \in LruThreads : caller[t].pc # "raised"
    /\ (\A t \in LruThreads : caller[t].pc \notin {"set_84", "set_86", "set_87"})
       => Len(lru) <= LruMaxsize
    /\ \A t \in LruThreads :
          (caller[t].op = "get" /\ caller[t].pc = "returned"
             /\ caller[t].out.out.value # NoneValue)
          => caller[t].out.out.value.endpoint = caller[t].key[1]

\* Two characters that are the same up to letter case
SameLetter(c, d) ==
    c = d \/ \E i \in 1..26 : {c, d} = {LowerChars[i], UpperChars[i]}

\* The input s spells the code: the letters of the code in either case, with
\* nothing but whitespace before and after them
SpellsCode(s, code) ==
    \E i \in 1..(Len(s) + 1) :
       /\ i + Len(code) - 1 <= Len(s)
       /\ \A j \in 1..Len(code) : SameLetter(s[i + j - 1], code[j])
       /\ \A j \in 1..Len(s) : (j < i \/ j > i + Len(code) - 1) => s[j] \in WhitespaceChars

====
